---------------------------- MODULE Spec2Model ----------------------------
(***************************************************************************)
(* Model of omnigibson/utils/transform_utils.py (quaternion, rotation      *)
(* matrix and pose algebra) and of the frame hierarchy (world -> scene     *)
(* origin -> parent) that the pose accessors of the multi-scene tests      *)
(* exercise.                                                               *)
(*                                                                         *)
(* Numbers.  The code computes in float32.  The model computes in exact    *)
(* rational arithmetic: a number is a pair <<n, d>> in lowest terms with   *)
(* d > 0.  d = 0 encodes the IEEE non-finite values (<<1,0>> = +inf,       *)
(* <<-1,0>> = -inf, <<0,0>> = NaN) so that a division by zero is a value,  *)
(* as it is for a tensor.  Rounding is not modelled: a property that the   *)
(* model shows to hold exactly holds of the code within float tolerance.   *)
(* Square roots are exact: RSqrt is applied only to squares of rationals   *)
(* (TLC stops with an error on any other argument).                        *)
(*                                                                         *)
(* Indices.  Python indexes from 0, the model from 1: a quaternion is      *)
(* <<x, y, z, w>>, a matrix is a tuple of rows.                            *)
(***************************************************************************)
EXTENDS Integers, Sequences, FiniteSets, TLC

VARIABLES
    fn,         \* the transform_utils function applied to the inputs, "none" before
    ret,        \* what it returned
    q1, q0,     \* quaternion inputs
    pose1, pose0,   \* pose inputs, [pos, quat]
    args,       \* the arguments of a call that are not quaternions or poses
    scene_pose, \* scene -> world pose of the scene origin (the scene prim)
    local,      \* object -> pose relative to its structural parent
    playing,    \* whether the simulator is playing
    dump,       \* scene -> the state last dumped from it, NoValue before
    last,       \* the accessor call whose result is being read back, or NoValue
    tables,     \* the module-level names of transform_utils (EPS and the Euler axis tables)
    sheet,      \* the worksheet of the sampling script: activity -> its cells
    thread      \* sampling thread -> its position in the sampling loop

algVars == <<fn, ret, q1, q0, pose1, pose0, args>>
frameVars == <<scene_pose, local, playing, dump, last>>
moreVars == <<tables, sheet, thread>>
vars == <<fn, ret, q1, q0, pose1, pose0, args, scene_pose, local, playing, dump, last,
          tables, sheet, thread>>

----------------------------------------------------------------------------
(* Module-level names of transform_utils                                    *)

\* dict(items): items is a tuple of <<key, value>>, a later item replaces an
\* earlier one with the same key
DictOf(items) ==
    [k \in {items[i][1] : i \in 1..Len(items)} |->
        items[CHOOSE i \in 1..Len(items) :
                /\ items[i][1] = k
                /\ \A j \in (i + 1)..Len(items) : items[j][1] # k][2]]

\* mutant of AXES2TUPLE: "rzyz" given the tuple of "rxyz"
AXES2TUPLE_dup ==
    DictOf(<< <<"sxyz", <<0, 0, 0, 0>>>>, <<"sxyx", <<0, 0, 1, 0>>>>, <<"sxzy", <<0, 1, 0, 0>>>>,
              <<"sxzx", <<0, 1, 1, 0>>>>, <<"syzx", <<1, 0, 0, 0>>>>, <<"syzy", <<1, 0, 1, 0>>>>,
              <<"syxz", <<1, 1, 0, 0>>>>, <<"syxy", <<1, 1, 1, 0>>>>, <<"szxy", <<2, 0, 0, 0>>>>,
              <<"szxz", <<2, 0, 1, 0>>>>, <<"szyx", <<2, 1, 0, 0>>>>, <<"szyz", <<2, 1, 1, 0>>>>,
              <<"rzyx", <<0, 0, 0, 1>>>>, <<"rxyx", <<0, 0, 1, 1>>>>, <<"ryzx", <<0, 1, 0, 1>>>>,
              <<"rxzx", <<0, 1, 1, 1>>>>, <<"rxzy", <<1, 0, 0, 1>>>>, <<"ryzy", <<1, 0, 1, 1>>>>,
              <<"rzxy", <<1, 1, 0, 1>>>>, <<"ryxy", <<1, 1, 1, 1>>>>, <<"ryxz", <<2, 0, 0, 1>>>>,
              <<"rzxz", <<2, 0, 1, 1>>>>, <<"rxyz", <<2, 1, 0, 1>>>>, <<"rzyz", <<2, 1, 0, 1>>>> >>)

\* _AXES2TUPLE: axes string -> (inner axis, parity, repetition, frame)
AXES2TUPLE ==
    DictOf(<< <<"sxyz", <<0, 0, 0, 0>>>>, <<"sxyx", <<0, 0, 1, 0>>>>, <<"sxzy", <<0, 1, 0, 0>>>>,
              <<"sxzx", <<0, 1, 1, 0>>>>, <<"syzx", <<1, 0, 0, 0>>>>, <<"syzy", <<1, 0, 1, 0>>>>,
              <<"syxz", <<1, 1, 0, 0>>>>, <<"syxy", <<1, 1, 1, 0>>>>, <<"szxy", <<2, 0, 0, 0>>>>,
              <<"szxz", <<2, 0, 1, 0>>>>, <<"szyx", <<2, 1, 0, 0>>>>, <<"szyz", <<2, 1, 1, 0>>>>,
              <<"rzyx", <<0, 0, 0, 1>>>>, <<"rxyx", <<0, 0, 1, 1>>>>, <<"ryzx", <<0, 1, 0, 1>>>>,
              <<"rxzx", <<0, 1, 1, 1>>>>, <<"rxzy", <<1, 0, 0, 1>>>>, <<"ryzy", <<1, 0, 1, 1>>>>,
              <<"rzxy", <<1, 1, 0, 1>>>>, <<"ryxy", <<1, 1, 1, 1>>>>, <<"ryxz", <<2, 0, 0, 1>>>>,
              <<"rzxz", <<2, 0, 1, 1>>>>, <<"rxyz", <<2, 1, 0, 1>>>>, <<"rzyz", <<2, 1, 1, 1>>>> >>)

\* dict.items() in a fixed order
ItemsOf(d) ==
    LET RECURSIVE Lst(_)
        Lst(K) == IF K = {} THEN <<>>
                  ELSE LET k == CHOOSE x \in K : TRUE
                       IN  <<<<k, d[k]>>>> \o Lst(K \ {k})
    IN  Lst(DOMAIN d)

\* _TUPLE2AXES = dict((v, k) for k, v in _AXES2TUPLE.items())
TUPLE2AXES ==
    DictOf([i \in 1..Len(ItemsOf(AXES2TUPLE)) |->
                <<ItemsOf(AXES2TUPLE)[i][2], ItemsOf(AXES2TUPLE)[i][1]>>])

\* The names as they are once the module is imported.  EPS is
\* finfo(float32).eps * 4 = 2^-21, a number <<n, d>>; _NEXT_AXIS is a list.
ModuleTables ==
    [EPS |-> <<1, 2097152>>,
     NEXT_AXIS |-> <<1, 2, 0, 1>>,
     AXES2TUPLE |-> AXES2TUPLE,
     TUPLE2AXES |-> TUPLE2AXES]

----------------------------------------------------------------------------
(* Rational arithmetic (the float tensors' + - * / < sqrt)                  *)

\* The one element of a singleton set.  An operator written
\*     Op(a) == The({ body(x) : x \in {a} })
\* evaluates its argument once and binds it to x, as a call binds a parameter.
The(S) == CHOOSE x \in S : TRUE

Abs(i) == IF i < 0 THEN -i ELSE i

Sgn(i) == IF i < 0 THEN -1 ELSE IF i > 0 THEN 1 ELSE 0

RECURSIVE Gcd(_, _)
Gcd(a, b) == IF b = 0 THEN a ELSE Gcd(b, a % b)

\* the number n/d in lowest terms, d >= 0 (d = 0: non-finite)
Rat(n, d) ==
    The({ IF y = 0 THEN <<Sgn(x), 0>>
          ELSE IF y < 0 THEN <<(-x) \div Gcd(Abs(x), Abs(y)), (-y) \div Gcd(Abs(x), Abs(y))>>
          ELSE <<x \div Gcd(Abs(x), y), y \div Gcd(Abs(x), y)>> : x \in {n}, y \in {d} })

I2R(i) == <<i, 1>>
Zero == <<0, 1>>
One == <<1, 1>>
Two == <<2, 1>>
Half == <<1, 2>>
Quarter == <<1, 4>>

RIsFinite(a) == a[2] # 0
RNeg(a) == The({ <<-x[1], x[2]>> : x \in {a} })
RAdd(a, b) ==
    The({ IF x[2] = 0 /\ y[2] = 0 THEN (IF x = y THEN x ELSE <<0, 0>>)
          ELSE IF x[2] = 0 THEN x
          ELSE IF y[2] = 0 THEN y
          ELSE IF x[2] = y[2] THEN Rat(x[1] + y[1], x[2])
          ELSE Rat(x[1] * (y[2] \div Gcd(x[2], y[2])) + y[1] * (x[2] \div Gcd(x[2], y[2])),
                   (x[2] \div Gcd(x[2], y[2])) * y[2]) : x \in {a}, y \in {b} })
RSub(a, b) == RAdd(a, RNeg(b))
RMul(a, b) == The({ Rat(x[1] * y[1], x[2] * y[2]) : x \in {a}, y \in {b} })
RDiv(a, b) == The({ Rat(x[1] * y[2], x[2] * y[1]) : x \in {a}, y \in {b} })
\* n1/d1 < n2/d2 for n >= 0, d > 0, by the integer parts and then the
\* reciprocals of the fractional parts (no product that could overflow)
RECURSIVE FracLt(_, _, _, _)
FracLt(n1, d1, n2, d2) ==
    IF n1 \div d1 # n2 \div d2 THEN n1 \div d1 < n2 \div d2
    ELSE IF n2 % d2 = 0 THEN FALSE
    ELSE IF n1 % d1 = 0 THEN TRUE
    ELSE FracLt(d2, n2 % d2, d1, n1 % d1)
\* a comparison with NaN is false
RLt(a, b) ==
    \E x \in {a}, y \in {b} :
        IF x[2] = 0 \/ y[2] = 0 THEN x[1] * y[2] < y[1] * x[2]
        ELSE IF x[1] < 0 /\ y[1] >= 0 THEN TRUE
        ELSE IF x[1] >= 0 /\ y[1] < 0 THEN FALSE
        ELSE IF x[1] < 0 THEN FracLt(-y[1], y[2], -x[1], x[2])
        ELSE FracLt(x[1], x[2], y[1], y[2])
RLe(a, b) ==
    \E x \in {a}, y \in {b} : (x = y \/ RLt(x, y)) /\ x # <<0, 0>> /\ y # <<0, 0>>
RGt(a, b) == RLt(b, a)
RAbs(a) == The({ <<Abs(x[1]), x[2]>> : x \in {a} })

\* integer square root of a perfect square
ISqrt(n) == CHOOSE k \in 0..n : k * k = n
\* th.sqrt on the squares of rationals; NaN on a negative number
RSqrt(a) ==
    The({ IF x[1] < 0 THEN <<0, 0>> ELSE <<ISqrt(x[1]), ISqrt(x[2])>> : x \in {a} })

----------------------------------------------------------------------------
(* Vectors and matrices of rationals                                        *)

\* a vector or a matrix as the tuple of its entries
Tup(f) == f \o <<>>

VDot(u, v) ==
    The({ IF Len(x) = 3
          THEN RAdd(RAdd(RMul(x[1], y[1]), RMul(x[2], y[2])), RMul(x[3], y[3]))
          ELSE RAdd(RAdd(RAdd(RMul(x[1], y[1]), RMul(x[2], y[2])), RMul(x[3], y[3])),
                    RMul(x[4], y[4])) : x \in {u}, y \in {v} })
VAdd(u, v) == The({ Tup([i \in 1..Len(x) |-> RAdd(x[i], y[i])]) : x \in {u}, y \in {v} })
VSub(u, v) == The({ Tup([i \in 1..Len(x) |-> RSub(x[i], y[i])]) : x \in {u}, y \in {v} })
VNeg(u) == The({ Tup([i \in 1..Len(x) |-> RNeg(x[i])]) : x \in {u} })
VScale(u, c) == The({ Tup([i \in 1..Len(x) |-> RMul(x[i], y)]) : x \in {u}, y \in {c} })
VDivS(u, c) == The({ Tup([i \in 1..Len(x) |-> RDiv(x[i], y)]) : x \in {u}, y \in {c} })
VNorm(u) == The({ RSqrt(VDot(x, x)) : x \in {u} })
Cross(u, v) ==
    The({ << RSub(RMul(x[2], y[3]), RMul(x[3], y[2])),
             RSub(RMul(x[3], y[1]), RMul(x[1], y[3])),
             RSub(RMul(x[1], y[2]), RMul(x[2], y[1])) >> : x \in {u}, y \in {v} })

MCol(M, j) == The({ Tup([i \in 1..Len(X) |-> X[i][j]]) : X \in {M} })
MatMul(A, B) ==
    The({ Tup([i \in 1..Len(X) |-> Tup([j \in 1..Len(Y[1]) |-> VDot(X[i], MCol(Y, j))])]) :
            X \in {A}, Y \in {B} })
MatVec(A, v) == The({ Tup([i \in 1..Len(X) |-> VDot(X[i], y)]) : X \in {A}, y \in {v} })
Transpose(A) == The({ Tup([i \in 1..Len(X[1]) |-> MCol(X, i)]) : X \in {A} })
Eye(n) == Tup([i \in 1..n |-> Tup([j \in 1..n |-> IF i = j THEN One ELSE Zero])])
\* hmat[:3, :3] and hmat[:3, 3]
Rot3(H) == The({ Tup([i \in 1..3 |-> SubSeq(X[i], 1, 3)]) : X \in {H} })
Trans3(H) == The({ Tup([i \in 1..3 |-> X[i][4]]) : X \in {H} })
\* the 4x4 matrix [[R, t], [0 0 0, 1]]
Hom(R, t) ==
    The({ Tup([i \in 1..4 |->
                IF i <= 3 THEN Append(X[i], y[i]) ELSE <<Zero, Zero, Zero, One>>]) :
            X \in {R}, y \in {t} })

\* What a call gives: the value it returns, or the error it raises (an assert
\* that fails, an index out of range, a tensor operation on the wrong shape)
Ok(v) == [raised |-> "none", value |-> v]
Raise(e) == [raised |-> e, value |-> <<>>]

\* self.dot(other), ndim = self.ndim.  th.dot is the dot product of two 1-D
\* tensors with the same number of elements (3 or 4 in the model): a tensor
\* of any other shape raises RuntimeError ("1D tensors expected"), unlike
\* numpy's dot.
tensor_dot(self, ndim, other) ==
    IF ndim = 1 /\ Len(self) = Len(other)
    THEN Ok(VDot(self, other))
    ELSE Raise("RuntimeError")

----------------------------------------------------------------------------
(* Quaternion algebra: transform_utils.py                                   *)

\* quat_mul(a, b): the batched product, here on one row of the batch
quat_mul(a, b) ==
    The({ LET x1 == p[1]  y1 == p[2]  z1 == p[3]  w1 == p[4]
              x2 == q[1]  y2 == q[2]  z2 == q[3]  w2 == q[4]
          IN  The({ << RAdd(RSub(qq, xx), RMul(RAdd(x1, w1), RAdd(x2, w2))),
                       RAdd(RSub(qq, yy), RMul(RSub(w1, x1), RAdd(y2, z2))),
                       RAdd(RSub(qq, zz), RMul(RAdd(z1, y1), RSub(w2, x2))),
                       RAdd(RSub(qq, ww), RMul(RSub(z1, y1), RSub(y2, z2))) >> :
                    ww \in {RMul(RAdd(z1, x1), RAdd(x2, y2))},
                    yy \in {RMul(RSub(w1, y1), RAdd(w2, z2))},
                    zz \in {RMul(RAdd(w1, y1), RSub(w2, z2))},
                    xx \in {RAdd(RAdd(RMul(RAdd(z1, x1), RAdd(x2, y2)),
                                      RMul(RSub(w1, y1), RAdd(w2, z2))),
                                 RMul(RAdd(w1, y1), RSub(w2, z2)))},
                    qq \in {RMul(Half,
                                 RAdd(RAdd(RAdd(RMul(RAdd(z1, x1), RAdd(x2, y2)),
                                                RMul(RSub(w1, y1), RAdd(w2, z2))),
                                           RMul(RAdd(w1, y1), RSub(w2, z2))),
                                      RMul(RSub(z1, x1), RSub(x2, y2))))} }) :
            p \in {a}, q \in {b} })

\* quat_apply(quat, vec): vec + qw * t + cross(q_xyz, t), t = 2 * cross(q_xyz, vec)
quat_apply(quat, vec) ==
    The({ The({ VAdd(VAdd(v, VScale(t, q[4])), Cross(<<q[1], q[2], q[3]>>, t)) :
                t \in {VScale(Cross(<<q[1], q[2], q[3]>>, v), Two)} }) :
            q \in {quat}, v \in {vec} })

\* mutant of quat_multiply: the operands taken in the other order (q0 * q1)
quat_multiply_swapped(quaternion1, quaternion0) ==
    The({ LET x0 == p[1]  y0 == p[2]  z0 == p[3]  w0 == p[4]
              x1 == q[1]  y1 == q[2]  z1 == q[3]  w1 == q[4]
          IN  << RAdd(RSub(RAdd(RMul(x1, w0), RMul(y1, z0)), RMul(z1, y0)), RMul(w1, x0)),
                 RAdd(RAdd(RAdd(RMul(RNeg(x1), z0), RMul(y1, w0)), RMul(z1, x0)), RMul(w1, y0)),
                 RAdd(RAdd(RSub(RMul(x1, y0), RMul(y1, x0)), RMul(z1, w0)), RMul(w1, z0)),
                 RAdd(RSub(RSub(RMul(RNeg(x1), x0), RMul(y1, y0)), RMul(z1, z0)), RMul(w1, w0)) >> :
            p \in {quaternion1}, q \in {quaternion0} })

\* quat_multiply(quaternion1, quaternion0): q1 * q0
quat_multiply(quaternion1, quaternion0) ==
    The({ LET x0 == q[1]  y0 == q[2]  z0 == q[3]  w0 == q[4]
              x1 == p[1]  y1 == p[2]  z1 == p[3]  w1 == p[4]
          IN  << RAdd(RSub(RAdd(RMul(x1, w0), RMul(y1, z0)), RMul(z1, y0)), RMul(w1, x0)),
                 RAdd(RAdd(RAdd(RMul(RNeg(x1), z0), RMul(y1, w0)), RMul(z1, x0)), RMul(w1, y0)),
                 RAdd(RAdd(RSub(RMul(x1, y0), RMul(y1, x0)), RMul(z1, w0)), RMul(w1, z0)),
                 RAdd(RSub(RSub(RMul(RNeg(x1), x0), RMul(y1, y0)), RMul(z1, z0)), RMul(w1, w0)) >> :
            p \in {quaternion1}, q \in {quaternion0} })

\* quat_conjugate(quaternion)
quat_conjugate(quaternion) ==
    The({ <<RNeg(q[1]), RNeg(q[2]), RNeg(q[3]), q[4]>> : q \in {quaternion} })

\* mutant of quat_inverse: the division by the squared norm left out
quat_inverse_nodiv(quaternion) == quat_conjugate(quaternion)

\* quat_inverse(quaternion): quat_conjugate(q) / dot(q, q)
quat_inverse(quaternion) ==
    The({ VDivS(quat_conjugate(q), VDot(q, q)) : q \in {quaternion} })

\* quat_distance(quaternion1, quaternion0)
quat_distance(quaternion1, quaternion0) ==
    quat_multiply(quaternion1, quat_inverse(quaternion0))

----------------------------------------------------------------------------
(* Rotation conversions                                                     *)

\* quat2mat(quaternion).  The code scales q by sqrt(2 / n) and takes the
\* outer product q2 = q_ q_^T; the model takes q2[i][j] = q[i] * q[j] * (2 / n),
\* the same number without the irrational intermediate (q2 with the code's
\* 0-based indices).  A zero quaternion (n = 0) is not in idx and keeps the
\* identity the return array starts as.
quat2mat(quaternion) ==
    The({ IF n = Zero THEN Eye(3)
          ELSE The({ << << RSub(RSub(One, q2[3][3]), q2[4][4]),
                           RSub(q2[2][3], q2[4][1]),
                           RAdd(q2[2][4], q2[3][1]) >>,
                        << RAdd(q2[2][3], q2[4][1]),
                           RSub(RSub(One, q2[2][2]), q2[4][4]),
                           RSub(q2[3][4], q2[2][1]) >>,
                        << RSub(q2[2][4], q2[3][1]),
                           RAdd(q2[3][4], q2[2][1]),
                           RSub(RSub(One, q2[2][2]), q2[3][3]) >> >> :
                     q2 \in { Tup([i \in 1..4 |-> Tup([j \in 1..4 |->
                                    RMul(RMul(q[i], q[j]), RDiv(Two, n))])]) } }) :
            q \in { <<quaternion[4], quaternion[1], quaternion[2], quaternion[3]>> },
            n \in { VDot(quaternion, quaternion) } })

\* th.allclose(a, b, atol=1e-6) with the default rtol = 1e-5, elementwise on 3x3:
\* |a - b| <= atol + rtol * |b|
AllClose3(A, B) ==
    \E X \in {A}, Y \in {B} :
        \A i \in 1..3 : \A j \in 1..3 :
            RLe(RAbs(RSub(X[i][j], Y[i][j])),
                RAdd(<<1, 1000000>>, RMul(<<1, 100000>>, RAbs(Y[i][j]))))

\* mutant of mat2quat: where m22 is the largest diagonal element, w taken from
\* m01 - m10 instead of m10 - m01
mat2quat_wsign(rmat) ==
    The({ LET m00 == m[1][1]  m01 == m[1][2]  m02 == m[1][3]
              m10 == m[2][1]  m11 == m[2][2]  m12 == m[2][3]
              m20 == m[3][1]  m21 == m[3][2]  m22 == m[3][3]
          IN  The({ The({ VDivS(quat, VNorm(quat)) :
                quat \in {
                    IF AllClose3(m, Eye(3)) THEN <<Zero, Zero, Zero, One>>
                    ELSE IF RGt(trace, Zero)
                    THEN The({ << RDiv(RSub(m21, m12), s), RDiv(RSub(m02, m20), s),
                                  RDiv(RSub(m10, m01), s), RMul(Quarter, s) >> :
                               s \in {RMul(Two, RSqrt(RAdd(trace, One)))} })
                    ELSE IF RGt(m00, m11) /\ RGt(m00, m22)
                    THEN The({ << RMul(Quarter, s), RDiv(RAdd(m01, m10), s),
                                  RDiv(RAdd(m02, m20), s), RDiv(RSub(m21, m12), s) >> :
                               s \in {RMul(Two, RSqrt(RSub(RSub(RAdd(One, m00), m11), m22)))} })
                    ELSE IF RGt(m11, m22)
                    THEN The({ << RDiv(RAdd(m01, m10), s), RMul(Quarter, s),
                                  RDiv(RAdd(m12, m21), s), RDiv(RSub(m02, m20), s) >> :
                               s \in {RMul(Two, RSqrt(RSub(RSub(RAdd(One, m11), m00), m22)))} })
                    ELSE The({ << RDiv(RAdd(m02, m20), s), RDiv(RAdd(m12, m21), s),
                                  RMul(Quarter, s), RDiv(RSub(m01, m10), s) >> :
                               s \in {RMul(Two, RSqrt(RSub(RSub(RAdd(One, m22), m00), m11)))} })
                } }) : trace \in {RAdd(RAdd(m00, m11), m22)} }) :
            m \in {rmat} })

\* mat2quat(rmat), on one 3x3 matrix
mat2quat(rmat) ==
    The({ LET m00 == m[1][1]  m01 == m[1][2]  m02 == m[1][3]
              m10 == m[2][1]  m11 == m[2][2]  m12 == m[2][3]
              m20 == m[3][1]  m21 == m[3][2]  m22 == m[3][3]
          IN  The({ The({ VDivS(quat, VNorm(quat)) :
                quat \in {
                    IF AllClose3(m, Eye(3)) THEN <<Zero, Zero, Zero, One>>
                    ELSE IF RGt(trace, Zero)
                    THEN The({ << RDiv(RSub(m21, m12), s), RDiv(RSub(m02, m20), s),
                                  RDiv(RSub(m10, m01), s), RMul(Quarter, s) >> :
                               s \in {RMul(Two, RSqrt(RAdd(trace, One)))} })
                    ELSE IF RGt(m00, m11) /\ RGt(m00, m22)
                    THEN The({ << RMul(Quarter, s), RDiv(RAdd(m01, m10), s),
                                  RDiv(RAdd(m02, m20), s), RDiv(RSub(m21, m12), s) >> :
                               s \in {RMul(Two, RSqrt(RSub(RSub(RAdd(One, m00), m11), m22)))} })
                    ELSE IF RGt(m11, m22)
                    THEN The({ << RDiv(RAdd(m01, m10), s), RMul(Quarter, s),
                                  RDiv(RAdd(m12, m21), s), RDiv(RSub(m02, m20), s) >> :
                               s \in {RMul(Two, RSqrt(RSub(RSub(RAdd(One, m11), m00), m22)))} })
                    ELSE The({ << RDiv(RAdd(m02, m20), s), RDiv(RAdd(m12, m21), s),
                                  RMul(Quarter, s), RDiv(RSub(m10, m01), s) >> :
                               s \in {RMul(Two, RSqrt(RSub(RSub(RAdd(One, m22), m00), m11)))} })
                } }) : trace \in {RAdd(RAdd(m00, m11), m22)} }) :
            m \in {rmat} })

----------------------------------------------------------------------------
(* Pose algebra.  A pose is a record [pos |-> 3-vector, quat |-> quaternion] *)
(* or a 4x4 homogeneous matrix.                                             *)

Pose(p, q) == [pos |-> p, quat |-> q]

\* mutant of pose2mat: the matrix transposed (pos in the bottom row)
pose2mat_transposed(pose) == The({ Transpose(Hom(quat2mat(P.quat), P.pos)) : P \in {pose} })

\* pose2mat((pos, orn))
pose2mat(pose) == The({ Hom(quat2mat(P.quat), P.pos) : P \in {pose} })

\* mat2pose(hmat)
mat2pose(hmat) == The({ Pose(Trans3(H), mat2quat(Rot3(H))) : H \in {hmat} })

\* make_pose(translation, rotation)
make_pose(translation, rotation) == Hom(rotation, translation)

\* pose_in_A_to_pose_in_B(pose_A, pose_A_in_B): pose_A_in_B.dot(pose_A) on two
\* 4x4 tensors
pose_in_A_to_pose_in_B(pose_A, pose_A_in_B) == tensor_dot(pose_A_in_B, 2, pose_A)

\* mutant of pose_inv: the translation rotated back but not negated
pose_inv_noneg(pose_mat) ==
    The({ Hom(Rt, MatVec(Rt, Trans3(pose_mat))) : Rt \in {Transpose(Rot3(pose_mat))} })

\* pose_inv(pose_mat): zeros((4, 4)), then pose_inv[:3, :3] = R^T,
\* pose_inv[:3, 3] = -R^T t, pose_inv[3, 3] = 1
pose_inv(pose_mat) ==
    The({ Hom(Rt, VNeg(MatVec(Rt, Trans3(pose_mat)))) : Rt \in {Transpose(Rot3(pose_mat))} })

\* mutant of pose_transform: mat0 @ mat1
pose_transform_swapped(pos1, quat1, pos0, quat0) ==
    LET mat0 == pose2mat(Pose(pos0, quat0))
        mat1 == pose2mat(Pose(pos1, quat1))
    IN  mat2pose(MatMul(mat0, mat1))

\* pose_transform(pos1, quat1, pos0, quat0): mat2pose(mat1 @ mat0)
pose_transform(pos1, quat1, pos0, quat0) ==
    LET mat0 == pose2mat(Pose(pos0, quat0))
        mat1 == pose2mat(Pose(pos1, quat1))
    IN  mat2pose(MatMul(mat1, mat0))

\* invert_pose_transform(pos, quat)
invert_pose_transform(pos, quat) == mat2pose(pose_inv(pose2mat(Pose(pos, quat))))

\* mutant of relative_pose_transform: mat1 @ pose_inv(mat0)
relative_pose_transform_swapped(pos1, quat1, pos0, quat0) ==
    LET mat0 == pose2mat(Pose(pos0, quat0))
        mat1 == pose2mat(Pose(pos1, quat1))
    IN  mat2pose(MatMul(mat1, pose_inv(mat0)))

\* relative_pose_transform(pos1, quat1, pos0, quat0): mat2pose(pose_inv(mat0) @ mat1)
relative_pose_transform(pos1, quat1, pos0, quat0) ==
    LET mat0 == pose2mat(Pose(pos0, quat0))
        mat1 == pose2mat(Pose(pos1, quat1))
    IN  mat2pose(MatMul(pose_inv(mat0), mat1))

----------------------------------------------------------------------------
(* Inputs of the pure functions                                             *)

\* largest absolute value of a component of an integer quaternion input
MaxComp == 1

QI(x, y, z, w) == <<I2R(x), I2R(y), I2R(z), I2R(w)>>
Q4(x, y, z, w) == <<x, y, z, w>>
V3(x, y, z) == <<I2R(x), I2R(y), I2R(z)>>
QIdentity == QI(0, 0, 0, 1)

\* integer quaternions (unit and not, the zero quaternion included) and the
\* sixteen unit quaternions (+-1/2, +-1/2, +-1/2, +-1/2)
QuatInputs ==
    { QI(x, y, z, w) : x \in -MaxComp..MaxComp, y \in -MaxComp..MaxComp,
                       z \in -MaxComp..MaxComp, w \in -MaxComp..MaxComp }
    \cup { VScale(QI(x, y, z, w), Half) : x \in {-1, 1}, y \in {-1, 1},
                                          z \in {-1, 1}, w \in {-1, 1} }
\* second operands: no negative component
QuatInputs0 == { q \in QuatInputs : \A i \in 1..4 : q[i][1] >= 0 }

\* unit quaternions with rational components:
UnitQuatInputs ==
    { QIdentity,                                     \* identity
      QI(0, 0, 0, -1),                               \* identity, other sign
      QI(1, 0, 0, 0), QI(0, 1, 0, 0),                \* half turns about x, y
      Q4(Zero, Zero, <<3, 5>>, <<4, 5>>),            \* about z, trace > 0
      Q4(<<3, 5>>, Zero, Zero, <<-4, 5>>),           \* about x, w < 0
      Q4(Half, Half, Half, Half),                    \* a third of a turn, trace 0
      Q4(<<2, 3>>, <<2, 3>>, <<1, 3>>, Zero),        \* half turn, m00 = m11
      Q4(<<2, 3>>, <<-1, 3>>, Zero, <<2, 3>>),       \* general axis, trace > 0
      Q4(<<-2, 7>>, <<3, 7>>, <<6, 7>>, Zero) }      \* half turn, m22 largest

PosInputs == { V3(0, 0, 0), V3(1, 1, 1), V3(10, 0, 0), V3(-1, 2, 5) }

PoseInputs == { Pose(p, q) : p \in PosInputs, q \in UnitQuatInputs }

NoValue == <<>>

\* the pure functions are applied with no scene loaded
NoFrames ==
    /\ scene_pose = NoValue /\ local = NoValue /\ playing = FALSE
    /\ dump = NoValue /\ last = NoValue

\* transform_utils imported, no sampling thread started
NoSampling ==
    /\ tables = ModuleTables
    /\ sheet = NoValue /\ thread = NoValue

----------------------------------------------------------------------------
(* Quaternion functions applied to every input pair                         *)

BasisVecs == << V3(1, 0, 0), V3(0, 1, 0), V3(0, 0, 1) >>

InitQuat ==
    /\ fn = "none" /\ ret = NoValue
    /\ q1 \in QuatInputs /\ q0 \in QuatInputs0
    /\ pose1 = NoValue /\ pose0 = NoValue /\ args = NoValue
    /\ NoFrames /\ NoSampling

Return(f, r) ==
    /\ fn = "none"
    /\ fn' = f /\ ret' = r
    /\ UNCHANGED <<q1, q0, pose1, pose0, args>>
    /\ UNCHANGED frameVars /\ UNCHANGED moreVars

CallQuatMultiply == Return("quat_multiply", quat_multiply(q1, q0))
CallQuatMul == Return("quat_mul", quat_mul(q1, q0))
CallQuatConjugate == Return("quat_conjugate", quat_conjugate(q1))
CallQuatInverse == Return("quat_inverse", quat_inverse(q1))
CallQuatDistance == Return("quat_distance", quat_distance(q1, q0))
\* quat_apply on the batch of the three basis vectors: by the product q1 * q0
\* (prod), and by q0 and then by q1 (seq)
CallQuatApply ==
    Return("quat_apply",
           [prod |-> [k \in 1..3 |-> quat_apply(quat_multiply(q1, q0), BasisVecs[k])],
            seq |-> [k \in 1..3 |-> quat_apply(q1, quat_apply(q0, BasisVecs[k]))]])

NextQuat ==
    \/ CallQuatMultiply
    \/ CallQuatMul
    \/ CallQuatConjugate
    \/ CallQuatInverse
    \/ CallQuatDistance
    \/ CallQuatApply

SpecQuat == InitQuat /\ [][NextQuat]_vars

----------------------------------------------------------------------------
(* Claims about the quaternion functions (SpecQuat)                         *)

NormSq(q) == RAdd(RAdd(RAdd(RMul(q[1], q[1]), RMul(q[2], q[2])), RMul(q[3], q[3])),
                  RMul(q[4], q[4]))
IsUnit(q) == NormSq(q) = One
VecPart(q) == <<q[1], q[2], q[3]>>
\* q and -q are the same rotation
SameRot(a, b) == a = b \/ a = VNeg(b)

\* The Hamilton product from the rules i^2 = j^2 = k^2 = ijk = -1, in the
\* component order (x, y, z, w) = (i, j, k, 1): BasisProd[a][b] is the sign
\* and the component of the product of basis elements a and b.
BasisProd ==
    << << <<-1, 4>>, <<1, 3>>, <<-1, 2>>, <<1, 1>> >>,
       << <<-1, 3>>, <<-1, 4>>, <<1, 1>>, <<1, 2>> >>,
       << <<1, 2>>, <<-1, 1>>, <<-1, 4>>, <<1, 3>> >>,
       << <<1, 1>>, <<1, 2>>, <<1, 3>>, <<1, 4>> >> >>
RECURSIVE SumSeq(_)
SumSeq(s) == IF s = <<>> THEN Zero ELSE RAdd(Head(s), SumSeq(Tail(s)))
Hamilton(a, b) ==
    [c \in 1..4 |->
        SumSeq([n \in 1..16 |->
            LET i == ((n - 1) \div 4) + 1
                j == ((n - 1) % 4) + 1
            IN  IF BasisProd[i][j][2] = c
                THEN RMul(I2R(BasisProd[i][j][1]), RMul(a[i], b[j]))
                ELSE Zero])]

\* C9: for every non-zero quaternion q, quat_inverse(q) is the conjugate
\* (-x, -y, -z, w) divided by |q|^2, its product with q on either side is
\* (0, 0, 0, 1), and for a unit q it is the conjugate itself.
C9_QuatInverse ==
    (fn = "quat_inverse" /\ q1 # QI(0, 0, 0, 0)) =>
        /\ \A i \in 1..3 : RMul(ret[i], NormSq(q1)) = RNeg(q1[i])
        /\ RMul(ret[4], NormSq(q1)) = q1[4]
        /\ ret = VDivS(quat_conjugate(q1), NormSq(q1))
        /\ quat_multiply(q1, ret) = QIdentity
        /\ quat_multiply(ret, q1) = QIdentity
        /\ IsUnit(q1) => ret = <<RNeg(q1[1]), RNeg(q1[2]), RNeg(q1[3]), q1[4]>>

\* the inverse of a quaternion that is not a unit quaternion has been taken
C9_Witness ==
    /\ fn = "quat_inverse"
    /\ q1 = QI(1, -1, 0, 1)
    /\ ret = Q4(<<-1, 3>>, <<1, 3>>, Zero, <<1, 3>>)

\* C10: quat_multiply(q1, q0) and quat_mul(q1, q0) are both the Hamilton
\* product q1 * q0 in (x, y, z, w) order; the product commutes exactly when the
\* vector parts are parallel (so it is not commutative); rotating by the
\* product of unit quaternions is rotating by q0 and then by q1.
C10_HamiltonProduct ==
    /\ fn = "quat_multiply" =>
        /\ ret = Hamilton(q1, q0)
        /\ (ret = quat_multiply(q0, q1)) <=>
                (Cross(VecPart(q1), VecPart(q0)) = V3(0, 0, 0))
    /\ fn = "quat_mul" =>
        /\ ret = Hamilton(q1, q0)
        /\ ret = quat_multiply(q1, q0)
    /\ (fn = "quat_apply" /\ IsUnit(q1) /\ IsUnit(q0)) => ret.prod = ret.seq

\* two unit quaternions that do not commute have been multiplied and applied
C10_Witness ==
    /\ fn = "quat_apply"
    /\ IsUnit(q1) /\ IsUnit(q0)
    /\ Hamilton(q1, q0) # Hamilton(q0, q1)
    /\ ret.prod # [k \in 1..3 |-> quat_apply(q0, quat_apply(q1, BasisVecs[k]))]

----------------------------------------------------------------------------
(* Pose functions applied to every pair of input poses                      *)

InitPose ==
    /\ fn = "none" /\ ret = NoValue
    /\ q1 = NoValue /\ q0 = NoValue
    /\ pose1 \in PoseInputs /\ pose0 \in PoseInputs /\ args = NoValue
    /\ NoFrames /\ NoSampling

CallPose2Mat == Return("pose2mat", pose2mat(pose1))
CallMat2Pose == Return("mat2pose", mat2pose(pose2mat(pose1)))
CallPoseInv == Return("pose_inv", pose_inv(pose2mat(pose1)))
CallInvertPoseTransform ==
    Return("invert_pose_transform", invert_pose_transform(pose1.pos, pose1.quat))
CallPoseTransform ==
    Return("pose_transform", pose_transform(pose1.pos, pose1.quat, pose0.pos, pose0.quat))
CallRelativePoseTransform ==
    Return("relative_pose_transform",
           relative_pose_transform(pose1.pos, pose1.quat, pose0.pos, pose0.quat))

NextPose ==
    \/ CallPose2Mat
    \/ CallMat2Pose
    \/ CallPoseInv
    \/ CallInvertPoseTransform
    \/ CallPoseTransform
    \/ CallRelativePoseTransform

SpecPose == InitPose /\ [][NextPose]_vars

\* C7: pose_inv(P) of P = [R t; 0 1] has rotation block R^T, translation
\* -(R^T) t and bottom row (0, 0, 0, 1); pose_inv(P) P and P pose_inv(P) are the
\* identity, and pose_inv(pose_inv(P)) = P.  invert_pose_transform returns the
\* same inverse as a (pos, quat) pair.
C7_PoseInv ==
    LET P == pose2mat(pose1) IN
    /\ fn = "pose_inv" =>
        /\ \A i \in 1..3 : \A j \in 1..3 : ret[i][j] = P[j][i]
        /\ \A i \in 1..3 :
             ret[i][4] = RNeg(RAdd(RAdd(RMul(P[1][i], P[1][4]), RMul(P[2][i], P[2][4])),
                                   RMul(P[3][i], P[3][4])))
        /\ ret[4] = <<Zero, Zero, Zero, One>>
        /\ MatMul(ret, P) = Eye(4)
        /\ MatMul(P, ret) = Eye(4)
        /\ pose_inv(ret) = P
    /\ fn = "invert_pose_transform" =>
        /\ MatMul(pose2mat(ret), P) = Eye(4)
        /\ MatMul(P, pose2mat(ret)) = Eye(4)

\* a pose with a rotation about a general axis and a translation with three
\* non-zero components has been inverted
C7_Witness ==
    /\ fn = "pose_inv"
    /\ pose1 = Pose(V3(-1, 2, 5), Q4(<<2, 3>>, <<-1, 3>>, Zero, <<2, 3>>))
    /\ Trans3(ret) # VNeg(pose1.pos)
    /\ Rot3(ret) # Rot3(pose2mat(pose1))

\* C8: relative_pose_transform(pos1, quat1, pos0, quat0) is the T with
\* pose1 = pose0 T, that is T = pose_inv(pose0) pose1: pose_transform(pos0,
\* quat0, T.pos, T.quat) gives back pos1 and quat1 up to sign; and
\* pose_transform(pos1, quat1, pos0, quat0) is pose1 pose0, not pose0 pose1.
C8_RelativeTransform ==
    LET M1 == pose2mat(pose1)
        M0 == pose2mat(pose0)
    IN
    /\ fn = "relative_pose_transform" =>
        /\ pose2mat(ret) = MatMul(pose_inv(M0), M1)
        /\ MatMul(M0, pose2mat(ret)) = M1
        /\ LET back == pose_transform(pose0.pos, pose0.quat, ret.pos, ret.quat)
           IN  back.pos = pose1.pos /\ SameRot(back.quat, pose1.quat)
    /\ fn = "pose_transform" =>
        /\ pose2mat(ret) = MatMul(M1, M0)
        /\ MatMul(M1, M0) # MatMul(M0, M1) => pose2mat(ret) # MatMul(M0, M1)

\* the relative transform between two poses that do not commute, the second
\* with w < 0, has been computed and is not the plain difference of positions
C8_Witness ==
    /\ fn = "relative_pose_transform"
    /\ pose0 = Pose(V3(10, 0, 0), Q4(Zero, Zero, <<3, 5>>, <<4, 5>>))
    /\ pose1 = Pose(V3(1, 1, 1), Q4(<<3, 5>>, Zero, Zero, <<-4, 5>>))
    /\ ret.pos # VSub(pose1.pos, pose0.pos)
    /\ MatMul(pose2mat(pose1), pose2mat(pose0)) # MatMul(pose2mat(pose0), pose2mat(pose1))

----------------------------------------------------------------------------
(* Frame hierarchy: world -> scene origin -> object -> child object.        *)
(* The pose accessors (get/set_position_orientation with frame = world,     *)
(* parent or scene), the scene prim and the scene state dump are code of    *)
(* the repository outside the files modelled here; they are modelled from   *)
(* the specification (sections 3 and 6, glossary) and from the calls the    *)
(* tests make.  Every composition they do is transform_utils code.          *)

Scenes == {0, 1}
Robots == {"robot0", "robot1"}
Objects == Robots \cup {"sensor1"}
Frames == {"world", "parent", "scene"}
SceneOrigin == "scene_origin"

\* the structural parent of an object, and the scene instance it lives in
Parent(o) == IF o = "sensor1" THEN "robot1" ELSE SceneOrigin
SceneOf(o) == IF o = "robot0" THEN 0 ELSE 1
RobotOf(i) == IF i = 0 THEN "robot0" ELSE "robot1"

\* world pose of an object when the local poses are loc: the parent's world
\* pose composed with the object's local pose (the hierarchy is two deep: a
\* parent that is not the scene origin is a child of the scene origin)
world_pose_of(loc, o) ==
    The({ pose_transform(pw.pos, pw.quat, loc[o].pos, loc[o].quat) :
            pw \in { IF Parent(o) = SceneOrigin THEN scene_pose[SceneOf(o)]
                     ELSE pose_transform(scene_pose[SceneOf(o)].pos,
                                         scene_pose[SceneOf(o)].quat,
                                         loc[Parent(o)].pos, loc[Parent(o)].quat) } })

world_pose(o) == world_pose_of(local, o)

parent_world_pose(o) ==
    IF Parent(o) = SceneOrigin THEN scene_pose[SceneOf(o)] ELSE world_pose(Parent(o))

\* pose_of(object, frame)
pose_of(o, frame) ==
    IF frame = "parent" THEN local[o]
    ELSE IF frame = "world" THEN world_pose(o)
    ELSE The({ relative_pose_transform(w.pos, w.quat, scene_pose[SceneOf(o)].pos,
                                       scene_pose[SceneOf(o)].quat) :
                 w \in {world_pose(o)} })

\* mutant of set_pose_of: a child keeps its world pose when its parent is
\* moved (its local pose is recomputed against the parent's new world pose)
set_pose_of_children_stay(o, position, orientation, frame) ==
    The({ [c \in Objects |->
            IF c = o
            THEN IF frame = "parent" THEN Pose(position, orientation)
                 ELSE relative_pose_transform(inWorld.pos, inWorld.quat, pw.pos, pw.quat)
            ELSE IF Parent(c) = o
            THEN The({ relative_pose_transform(cw.pos, cw.quat, inWorld.pos, inWorld.quat) :
                        cw \in {world_pose(c)} })
            ELSE local[c]] :
          pw \in {parent_world_pose(o)},
          inWorld \in { IF frame = "scene"
                        THEN pose_transform(scene_pose[SceneOf(o)].pos,
                                            scene_pose[SceneOf(o)].quat, position, orientation)
                        ELSE IF frame = "world" THEN Pose(position, orientation)
                        ELSE pose_transform(parent_world_pose(o).pos, parent_world_pose(o).quat,
                                            position, orientation) } })

\* set_pose_of(object, position, orientation, frame): the local poses after it.
\* A scene-frame pose is composed with the scene origin's world pose; a world
\* pose is then expressed relative to the parent's world pose; the local pose
\* is what is stored.
set_pose_of(o, position, orientation, frame) ==
    IF frame = "parent" THEN [local EXCEPT ![o] = Pose(position, orientation)]
    ELSE The({ [local EXCEPT ![o] =
                    relative_pose_transform(inWorld.pos, inWorld.quat, pw.pos, pw.quat)] :
               pw \in {parent_world_pose(o)},
               inWorld \in { IF frame = "scene"
                             THEN pose_transform(scene_pose[SceneOf(o)].pos,
                                                 scene_pose[SceneOf(o)].quat,
                                                 position, orientation)
                             ELSE Pose(position, orientation) } })

\* scene state dump: the scene-frame pose of the scene's robot.  The other
\* fields are history: the scene origin's and the robot's world pose at dump
\* time, and the stage the dump is at: "dumped", "cleared" once the scenes
\* were cleared and recreated, "loaded" once it was loaded after that.
dump_state(i) ==
    [ poses |-> [o \in {RobotOf(i)} |-> pose_of(o, "scene")],
      scene |-> scene_pose[i],
      world |-> [o \in {RobotOf(i)} |-> pose_of(o, "world")],
      stage |-> "dumped" ]

\* scene state load: every dumped pose is set in the scene frame
load_state(i, state) ==
    LET o == RobotOf(i)
    IN  set_pose_of(o, state.poses[o].pos, state.poses[o].quat, "scene")

----------------------------------------------------------------------------
(* Poses set and read back through the three frames (Spec)                  *)

IdentityPose == Pose(V3(0, 0, 0), QIdentity)
QRotZ == Q4(Zero, Zero, <<3, 5>>, <<4, 5>>)
QRotXNeg == Q4(<<3, 5>>, Zero, Zero, <<-4, 5>>)
QThird == Q4(Half, Half, Half, Half)

PoseA == Pose(V3(1, 1, 1), QIdentity)      \* identity orientation
PoseB == Pose(V3(1, 2, 0), QRotZ)          \* a rotation given with w > 0
PoseC == Pose(V3(-1, 0, 2), QRotXNeg)      \* a rotation given with w < 0

\* poses handed to set_pose_of, per object
SetPoseInputs(o) ==
    IF o = "robot1" THEN {PoseA, PoseB, PoseC}
    ELSE IF o = "sensor1" THEN {PoseB}
    ELSE {PoseA}

\* world pose of the origin of scene 1 after construction: offset along x,
\* unrotated or rotated
Scene1Poses == { Pose(V3(10, 0, 0), QIdentity), Pose(V3(0, 5, 0), QThird) }

\* state after construction: each robot at its scene origin, the sensor at its
\* mount on the robot
InitLocal ==
    [o \in Objects |->
        IF o \in Robots THEN IdentityPose ELSE Pose(V3(0, 0, 1), QRotZ)]

NoAlg ==
    /\ fn = "none" /\ ret = NoValue
    /\ q1 = NoValue /\ q0 = NoValue /\ pose1 = NoValue /\ pose0 = NoValue
    /\ args = NoValue

\* scene 0 at the world origin, scene 1 offset, the simulator playing
Init ==
    /\ NoAlg /\ NoSampling
    /\ scene_pose \in { [i \in Scenes |-> IF i = 0 THEN IdentityPose ELSE S] :
                            S \in Scene1Poses }
    /\ local = InitLocal
    /\ playing = TRUE
    /\ dump = [i \in Scenes |-> NoValue]
    /\ last = NoValue

\* object.set_position_orientation(position, orientation, frame); before is
\* the local pose every other object had when the call was made
SetPose(o, P, frame) ==
    /\ last = NoValue
    /\ local' = set_pose_of(o, P.pos, P.quat, frame)
    /\ last' = [ op |-> "set_pose_of", obj |-> o, frame |-> frame, pose |-> P,
                 before |-> [c \in Objects \ {o} |-> local[c]] ]
    /\ UNCHANGED <<scene_pose, playing, dump>>
    /\ UNCHANGED algVars /\ UNCHANGED moreVars

\* the caller has read the poses back (reads change nothing) and goes on
ReadBack ==
    /\ last # NoValue
    /\ last' = NoValue
    /\ UNCHANGED <<scene_pose, local, playing, dump>>
    /\ UNCHANGED algVars /\ UNCHANGED moreVars

Play ==
    /\ last = NoValue
    /\ ~playing
    /\ playing' = TRUE
    /\ UNCHANGED <<scene_pose, local, dump, last>>
    /\ UNCHANGED algVars /\ UNCHANGED moreVars

Stop ==
    /\ last = NoValue
    /\ playing
    /\ playing' = FALSE
    /\ UNCHANGED <<scene_pose, local, dump, last>>
    /\ UNCHANGED algVars /\ UNCHANGED moreVars

Next ==
    \/ \E o \in Objects : \E P \in SetPoseInputs(o) : \E frame \in Frames :
            SetPose(o, P, frame)
    \/ ReadBack
    \/ Play
    \/ Stop

Spec == Init /\ [][Next]_vars

----------------------------------------------------------------------------
(* Scene state dumped, scenes moved or cleared, state loaded (SpecDump)     *)

DumpInitScenePose ==
    [i \in Scenes |-> IF i = 0 THEN IdentityPose ELSE Pose(V3(0, 5, 0), QThird)]

\* world poses the origin of scene i is moved between: a translation
ScenePosesOf(i) ==
    { DumpInitScenePose[i],
      Pose(VAdd(DumpInitScenePose[i].pos, V3(10, 0, 0)), DumpInitScenePose[i].quat) }

\* poses handed to set_pose_of before a dump, per robot
DumpSetInputs(o) == IF o = "robot0" THEN {PoseA} ELSE {PoseB}

InitDump ==
    /\ NoAlg /\ NoSampling
    /\ scene_pose = DumpInitScenePose
    /\ local = InitLocal
    /\ playing = TRUE
    /\ dump = [i \in Scenes |-> NoValue]
    /\ last = NoValue

\* scene.prim.set_position_orientation: the scene origin is moved
SetScenePose(i, S) ==
    /\ last = NoValue
    /\ S # scene_pose[i]
    /\ scene_pose' = [scene_pose EXCEPT ![i] = S]
    /\ UNCHANGED <<local, playing, dump, last>>
    /\ UNCHANGED algVars /\ UNCHANGED moreVars

\* state = scene.dump_state()
DumpState(i) ==
    /\ last = NoValue
    /\ dump' = [dump EXCEPT ![i] = dump_state(i)]
    /\ UNCHANGED <<scene_pose, local, playing, last>>
    /\ UNCHANGED algVars /\ UNCHANGED moreVars

\* scene.load_state(state) with the state dumped from the same index
LoadState(i) ==
    /\ last = NoValue
    /\ dump[i] # NoValue
    /\ local' = load_state(i, dump[i])
    /\ dump' = [dump EXCEPT ![i].stage = IF @ = "dumped" THEN @ ELSE "loaded"]
    /\ last' = [ op |-> "load_state", scene |-> i,
                 before |-> [c \in Objects \ {RobotOf(i)} |-> local[c]],
                 scene_before |-> scene_pose ]
    /\ UNCHANGED <<scene_pose, playing>>
    /\ UNCHANGED algVars /\ UNCHANGED moreVars

\* og.clear() and the scenes created again: the state after construction, the
\* dumped states kept by the caller
Clear ==
    /\ last = NoValue
    /\ scene_pose' = DumpInitScenePose
    /\ local' = InitLocal
    /\ dump' = [i \in Scenes |->
                    IF dump[i] = NoValue THEN NoValue
                    ELSE [dump[i] EXCEPT !.stage = "cleared"]]
    /\ UNCHANGED <<playing, last>>
    /\ UNCHANGED algVars /\ UNCHANGED moreVars

NextDump ==
    \/ \E o \in Robots : \E P \in DumpSetInputs(o) : SetPose(o, P, "scene")
    \/ ReadBack
    \/ \E i \in Scenes : \E S \in ScenePosesOf(i) : SetScenePose(i, S)
    \/ \E i \in Scenes : DumpState(i)
    \/ \E i \in Scenes : LoadState(i)
    \/ Clear

SpecDump == InitDump /\ [][NextDump]_vars

----------------------------------------------------------------------------
(* Claims about the frames (Spec)                                           *)

\* same position, same rotation (the quaternion up to sign)
PoseEq(a, b) == a.pos = b.pos /\ SameRot(a.quat, b.quat)

\* q is the quaternion mat2quat returns for the rotation of q
IsMat2QuatOutput(q) == mat2quat(quat2mat(q)) = q

SetCall == last # NoValue /\ last.op = "set_pose_of"
LoadCall == last # NoValue /\ last.op = "load_state"

\* C1: in every reachable state, for every object whose scene origin has
\* world pose S, pose_of(object, world) is compose(S, pose_of(object, scene)):
\* the position is S.pos + R(S.quat) * scene_pos, the orientation is
\* S.quat * scene_quat up to quaternion sign, and it is what
\* pose_transform(S.pos, S.quat, scene_pos, scene_quat) returns.
C1_WorldIsSceneComposed ==
    \A o \in Objects :
        LET S == scene_pose[SceneOf(o)]
            w == pose_of(o, "world")
            sc == pose_of(o, "scene")
        IN  /\ w.pos = VAdd(S.pos, MatVec(quat2mat(S.quat), sc.pos))
            /\ SameRot(w.quat, quat_multiply(S.quat, sc.quat))
            /\ PoseEq(w, pose_transform(S.pos, S.quat, sc.pos, sc.quat))

\* scene offset (10, 0, 0) with identity rotation, the robot set to the
\* scene-frame position (1, 1, 1): its world position is (11, 1, 1)
C1_Witness ==
    /\ SetCall /\ last.obj = "robot1" /\ last.frame = "scene"
    /\ scene_pose[1] = Pose(V3(10, 0, 0), QIdentity)
    /\ pose_of("robot1", "scene") = PoseA
    /\ pose_of("robot1", "world").pos = V3(11, 1, 1)

----------------------------------------------------------------------------
(* Claims about the scene state (SpecDump)                                  *)

\* C4: right after the state dumped from scene instance i is loaded into
\* instance i (the scenes cleared and recreated in between or not, the
\* instances loaded in any order), every dumped object's scene-frame pose is
\* its scene-frame pose at dump time, position and quaternion, and no object
\* or origin of another instance has changed.
C4_DumpLoadRoundTrip ==
    LoadCall =>
        LET i == last.scene
            o == RobotOf(i)
            D == dump[i]
        IN  /\ pose_of(o, "scene") = D.poses[o]
            /\ pose_of(o, "scene") =
                    relative_pose_transform(D.world[o].pos, D.world[o].quat,
                                            D.scene.pos, D.scene.quat)
            /\ \A c \in Objects : SceneOf(c) # i => local[c] = last.before[c]
            /\ \A j \in Scenes \ {i} : scene_pose[j] = last.scene_before[j]

\* both instances were dumped away from their initial poses, the scenes were
\* cleared and recreated, instance 1 was loaded and then instance 0
C4_Witness ==
    /\ LoadCall /\ last.scene = 0
    /\ dump[0] # NoValue /\ dump[0].stage = "loaded"
    /\ dump[1] # NoValue /\ dump[1].stage = "loaded"
    /\ pose_of("robot0", "scene") = PoseA
    /\ pose_of("robot1", "scene") = PoseB
    /\ dump[1].poses["robot1"] = PoseB

\* C5: when a scene is dumped, its origin is then translated by d, and the
\* dump is loaded, the load leaves the origin where it is (displaced by d
\* from where it was at dump time) and every dumped object's world position
\* is its world position at dump time plus d.
C5_LoadAfterSceneMove ==
    LoadCall =>
        LET i == last.scene
            o == RobotOf(i)
            D == dump[i]
            d == VSub(last.scene_before[i].pos, D.scene.pos)
        IN  last.scene_before[i].quat = D.scene.quat =>
                /\ scene_pose[i] = last.scene_before[i]
                /\ VSub(scene_pose[i].pos, D.scene.pos) = d
                /\ pose_of(o, "world").pos = VAdd(D.world[o].pos, d)

\* scene 1 (rotated origin) was dumped with its robot away from the origin,
\* the origin was translated by (10, 0, 0) and the dump was loaded
C5_Witness ==
    /\ LoadCall /\ last.scene = 1
    /\ VSub(scene_pose[1].pos, dump[1].scene.pos) = V3(10, 0, 0)
    /\ dump[1].poses["robot1"] = PoseB
    /\ pose_of("robot1", "world").pos = VAdd(dump[1].world["robot1"].pos, V3(10, 0, 0))

----------------------------------------------------------------------------
(* Calls of the utility functions.  A call either returns a value or raises *)
(* (an assert that fails, an index out of range, a tensor operation applied *)
(* to a tensor of the wrong shape); nothing is returned when it raises.     *)

\* a vector or quaternion none of whose components is inf or NaN
VIsFinite(v) == \A i \in 1..Len(v) : RIsFinite(v[i])

\* x + 1e-8 in float32: the numbers at x >= 1/4 are more than 2e-8 apart, so
\* the sum rounds to x; below that the sum is computed
AddEps8(x) ==
    The({ IF RLe(Quarter, y) THEN y ELSE RAdd(y, <<1, 100000000>>) : y \in {x} })

\* normalize(v, dim, eps): v / where(norm < eps, eps, norm), eps = 1e-10.
\* The model's numbers are zero or above eps, and 0 / eps = 0 / 1 exactly.
normalize(v) ==
    The({ VDivS(y, IF norm = Zero THEN One ELSE norm) : y \in {v}, norm \in {VNorm(v)} })

\* unit_vector(data, dim=-1, out=None); ndim is data.ndim.  A 1-D tensor is
\* divided by sqrt(dot(data, data)); any other by (length + 1e-8) along dim.
unit_vector(data, ndim) ==
    IF ndim = 1 THEN VDivS(data, RSqrt(VDot(data, data)))
    ELSE Tup([n \in 1..Len(data) |-> VDivS(data[n], AddEps8(VNorm(data[n])))])

\* th.clip(x, lo, hi)
RClip(x, lo, hi) == IF RLt(x, lo) THEN lo ELSE IF RLt(hi, x) THEN hi ELSE x

\* Angles.  An angle t in [0, 2 pi) is written as the point [c, s] =
\* (cos t, sin t) of the unit circle, so that sin, cos and tan are exact.  The
\* inputs are angles whose points, and the points of whose halves, are
\* rational.
Angle(c, s) == [c |-> c, s |-> s]
th_sin(a) == a.s
th_cos(a) == a.c
th_tan(a) == RDiv(a.s, a.c)
\* th.acos(x) is in [0, pi]: its sine is not negative
th_acos(x) == The({ Angle(y, RSqrt(RSub(One, RMul(y, y)))) : y \in {x} })
\* t / 2 is in [0, pi): its cosine has the sign of sin t
HalfAngle(a) ==
    The({ Angle(IF RLt(x.s, Zero) THEN RNeg(RSqrt(RMul(Half, RAdd(One, x.c))))
                ELSE RSqrt(RMul(Half, RAdd(One, x.c))),
                RSqrt(RMul(Half, RSub(One, x.c)))) : x \in {a} })
\* 2 t (modulo 2 pi)
TwiceAngle(a) ==
    The({ Angle(RSub(RMul(x.c, x.c), RMul(x.s, x.s)), RMul(Two, RMul(x.c, x.s))) : x \in {a} })
\* f t for f = 0, 1/2, 1, and for f = 0.4097 and 1 - f = 0.5903 of a right
\* angle: sin(0.4097 pi / 2) is 0.6 and sin(0.5903 pi / 2) is 0.8, to four
\* decimals
AngleTimes(f, a) ==
    IF f = Zero THEN Angle(One, Zero)
    ELSE IF f = One THEN a
    ELSE IF f = <<4097, 10000>> /\ a = Angle(Zero, One) THEN Angle(<<4, 5>>, <<3, 5>>)
    ELSE IF f = <<5903, 10000>> /\ a = Angle(Zero, One) THEN Angle(<<3, 5>>, <<4, 5>>)
    ELSE HalfAngle(a)
\* a > b for a, b in [0, 2 pi): the cosine decreases on [0, pi), where the halves are
AngleGt(a, b) == RLt(HalfAngle(a).c, HalfAngle(b).c)
\* t > 1e-6 (sin 1e-6 is 1e-6 in float32): t is not in the arc [0, 1e-6]
AngleGtEps6(a) ==
    ~ (RGt(a.c, Zero) /\ RLe(Zero, a.s) /\ RLe(a.s, <<1, 1000000>>))

quat_slerp_keep_quat1(quat0, quat1, frac, shortestpath) ==
    The({ The({ The({
        IF RAbs(RSub(RAbs(d), One)) = Zero
           \/ RClip(d, RNeg(One), One) = One
           \/ RLe(frac, Zero)
        THEN u0
        ELSE IF RLe(One, frac)
        THEN u1
        ELSE The({ VAdd(VScale(u0, RDiv(th_sin(AngleTimes(RSub(One, frac), angle)),
                                        th_sin(angle))),
                        VScale(u1, RDiv(th_sin(AngleTimes(frac, angle)), th_sin(angle)))) :
                   angle \in {th_acos(RClip(d, RNeg(One), One))} }) :
            u1 \in { v1 },
            d \in { IF shortestpath THEN RAbs(d0) ELSE d0 } }) :
          d0 \in { VDot(u0, v1) } }) :
        u0 \in { unit_vector(<<quat0>>, 2)[1] },
        v1 \in { unit_vector(<<quat1>>, 2)[1] } })

\* quat_slerp(quat0, quat1, frac, shortestpath, eps=1e-15) on one pair (a batch
\* of one row).  th.where selects, so val is computed here only where it is
\* selected.  eps is below the distance of any two numbers of the model (and
\* of float32) at 1: |abs(d) - 1| < eps when abs(d) = 1, and abs(angle) < eps
\* when the clipped d is 1.
quat_slerp(quat0, quat1, frac, shortestpath) ==
    The({ The({ The({
        IF RAbs(RSub(RAbs(d), One)) = Zero          \* where_small_diff
           \/ RClip(d, RNeg(One), One) = One        \* where_small_angle
           \/ RLe(frac, Zero)                       \* where_start
        THEN u0
        ELSE IF RLe(One, frac)                      \* where_end
        THEN u1
        ELSE The({ VAdd(VScale(u0, RDiv(th_sin(AngleTimes(RSub(One, frac), angle)),
                                        th_sin(angle))),
                        VScale(u1, RDiv(th_sin(AngleTimes(frac, angle)), th_sin(angle)))) :
                   angle \in {th_acos(RClip(d, RNeg(One), One))} }) :
            u1 \in { IF shortestpath /\ RLt(d0, Zero) THEN VNeg(v1) ELSE v1 },
            d \in { IF shortestpath THEN RAbs(d0) ELSE d0 } }) :
          d0 \in { VDot(u0, v1) } }) :
        u0 \in { unit_vector(<<quat0>>, 2)[1] },
        v1 \in { unit_vector(<<quat1>>, 2)[1] } })


----------------------------------------------------------------------------
(* Velocity and force transport between frames                              *)

\* _skew_symmetric_translation(pos_A_in_B)
skew_symmetric_translation(pos_A_in_B) ==
    The({ << << Zero, RNeg(t[3]), t[2] >>,
             << t[3], Zero, RNeg(t[1]) >>,
             << RNeg(t[2]), t[1], Zero >> >> : t \in {pos_A_in_B} })

\* vel_in_A_to_vel_in_B(vel_A, ang_vel_A, pose_A_in_B).  rot_A_in_B and
\* skew_symm are 3x3 tensors; the calls of dot are made from left to right and
\* the first that raises ends the function.
vel_in_A_to_vel_in_B(vel_A, ang_vel_A, pose_A_in_B) ==
    The({ The({
        IF rv.raised # "none" THEN rv
        ELSE The({
            IF rw.raised # "none" THEN rw
            ELSE The({
                IF srw.raised # "none" THEN srw
                ELSE Ok(<<VAdd(rv.value, srw.value), rw.value>>) :
                srw \in {tensor_dot(skew_symm, 2, rw.value)} }) :
            rw \in {tensor_dot(rot_A_in_B, 2, ang_vel_A)} }) :
        rv \in {tensor_dot(rot_A_in_B, 2, vel_A)} }) :
      rot_A_in_B \in {Rot3(pose_A_in_B)},
      skew_symm \in {skew_symmetric_translation(Trans3(pose_A_in_B))} })

\* force_in_A_to_force_in_B(force_A, torque_A, pose_A_in_B)
force_in_A_to_force_in_B(force_A, torque_A, pose_A_in_B) ==
    The({ The({
        IF rf.raised # "none" THEN rf
        ELSE The({
            IF sf.raised # "none" THEN sf
            ELSE The({
                IF rsf.raised # "none" THEN rsf
                ELSE The({
                    IF rt.raised # "none" THEN rt
                    ELSE Ok(<<rf.value, VAdd(VNeg(rsf.value), rt.value)>>) :
                    rt \in {tensor_dot(rot_T, 2, torque_A)} }) :
                rsf \in {tensor_dot(rot_T, 2, sf.value)} }) :
            sf \in {tensor_dot(skew_symm, 2, force_A)} }) :
        rf \in {tensor_dot(rot_T, 2, force_A)} }) :
      rot_T \in {Transpose(Rot3(pose_A_in_B))},
      skew_symm \in {skew_symmetric_translation(Trans3(pose_A_in_B))} })

----------------------------------------------------------------------------
(* Control utilities                                                        *)

\* mutant of clip_translation: scaled to length 1, the limit left out
clip_translation_unit(dpos, limit) ==
    The({ IF RGt(input_norm, limit) THEN <<VDivS(dpos, input_norm), TRUE>>
          ELSE <<dpos, FALSE>> : input_norm \in {VNorm(dpos)} })

\* clip_translation(dpos, limit)
clip_translation(dpos, limit) ==
    The({ IF RGt(input_norm, limit) THEN <<VDivS(VScale(dpos, limit), input_norm), TRUE>>
          ELSE <<dpos, FALSE>> : input_norm \in {VNorm(dpos)} })

\* mutant of clip_rotation: the limit used as the half angle (a = limit)
clip_rotation_nohalf(quat, limit) ==
    The({ The({
        IF den = Zero THEN <<q, FALSE>>
        ELSE IF AngleGt(TwiceAngle(th_acos(q[4])), limit)
        THEN << << RMul(RDiv(q[1], den), th_sin(limit)), RMul(RDiv(q[2], den), th_sin(limit)),
                   RMul(RDiv(q[3], den), th_sin(limit)), th_cos(limit) >>, TRUE >>
        ELSE <<q, FALSE>> :
            den \in { RSqrt(IF RLt(RSub(One, RMul(q[4], q[4])), Zero) THEN Zero
                            ELSE RSub(One, RMul(q[4], q[4]))) } }) :
      q \in {VDivS(quat, VNorm(quat))} })

\* clip_rotation(quat, limit); limit is an angle.  a = 2 acos(w) is positive
\* where it is compared, so abs(a) is a and sign(a) is 1.
clip_rotation(quat, limit) ==
    The({ The({
        IF den = Zero THEN <<q, FALSE>>
        ELSE IF AngleGt(TwiceAngle(th_acos(q[4])), limit)
        THEN The({ << << RMul(RDiv(q[1], den), th_sin(a)), RMul(RDiv(q[2], den), th_sin(a)),
                         RMul(RDiv(q[3], den), th_sin(a)), th_cos(a) >>, TRUE >> :
                   a \in {HalfAngle(limit)} })
        ELSE <<q, FALSE>> :
            den \in { RSqrt(IF RLt(RSub(One, RMul(q[4], q[4])), Zero) THEN Zero
                            ELSE RSub(One, RMul(q[4], q[4]))) } }) :
      q \in {VDivS(quat, VNorm(quat))} })

\* th.sign
RSign(x) == I2R(Sgn(x[1]))

\* quat_conjugate(quaternion) on a tensor of shape (N, 4), as
\* get_orientation_error calls it: quaternion[k] is row k of the batch, not
\* component k of a quaternion.  quaternion[3] is an IndexError for fewer than
\* four rows; with four or more the tensor made is (-row 0, -row 1, -row 2, row 3).
quat_conjugate_2d(quaternion) ==
    IF Len(quaternion) < 4 THEN Raise("IndexError")
    ELSE Ok(<<VNeg(quaternion[1]), VNeg(quaternion[2]), VNeg(quaternion[3]), quaternion[4]>>)

\* get_orientation_error(desired, current) on batches of N quaternions;
\* quat_mul asserts that its arguments have the same shape
get_orientation_error(desired, current) ==
    The({ IF cc.raised # "none" THEN cc
          ELSE IF Len(desired) # Len(cc.value) THEN Raise("AssertionError")
          ELSE Ok(Tup([n \in 1..Len(desired) |->
                    The({ VScale(VecPart(q_r), RSign(q_r[4])) :
                          q_r \in {quat_mul(desired[n], cc.value[n])} })])) :
          cc \in {quat_conjugate_2d(current)} })

----------------------------------------------------------------------------
(* Projection matrices.  An assert that fails raises AssertionError.        *)

\* mutant of frustum: the assert on znear and zfar left out
frustum_noassert(left, right, bottom, top, znear, zfar) ==
    IF right = left \/ bottom = top THEN Raise("AssertionError")
    ELSE Ok(<< << RDiv(RMul(Two, znear), RSub(right, left)), Zero, Zero, Zero >>,
               << Zero, RDiv(RMul(Two, znear), RSub(top, bottom)), Zero, Zero >>,
               << RDiv(RAdd(right, left), RSub(right, left)),
                  RDiv(RAdd(top, bottom), RSub(top, bottom)),
                  RNeg(RDiv(RAdd(zfar, znear), RSub(zfar, znear))), RNeg(One) >>,
               << Zero, Zero,
                  RDiv(RMul(RMul(RNeg(Two), znear), zfar), RSub(zfar, znear)), Zero >> >>)

\* frustum(left, right, bottom, top, znear, zfar): M[i, j] is row i + 1,
\* column j + 1 of the value
frustum(left, right, bottom, top, znear, zfar) ==
    IF right = left \/ bottom = top \/ znear = zfar THEN Raise("AssertionError")
    ELSE Ok(<< << RDiv(RMul(Two, znear), RSub(right, left)), Zero, Zero, Zero >>,
               << Zero, RDiv(RMul(Two, znear), RSub(top, bottom)), Zero, Zero >>,
               << RDiv(RAdd(right, left), RSub(right, left)),
                  RDiv(RAdd(top, bottom), RSub(top, bottom)),
                  RNeg(RDiv(RAdd(zfar, znear), RSub(zfar, znear))), RNeg(One) >>,
               << Zero, Zero,
                  RDiv(RMul(RMul(RNeg(Two), znear), zfar), RSub(zfar, znear)), Zero >> >>)

\* ortho(left, right, bottom, top, znear, zfar)
ortho(left, right, bottom, top, znear, zfar) ==
    IF right = left \/ bottom = top \/ znear = zfar THEN Raise("AssertionError")
    ELSE Ok(<< << RDiv(Two, RSub(right, left)), Zero, Zero, Zero >>,
               << Zero, RDiv(Two, RSub(top, bottom)), Zero, Zero >>,
               << Zero, Zero, RDiv(RNeg(Two), RSub(zfar, znear)), Zero >>,
               << RNeg(RDiv(RAdd(right, left), RSub(right, left))),
                  RNeg(RDiv(RAdd(top, bottom), RSub(top, bottom))),
                  RNeg(RDiv(RAdd(zfar, znear), RSub(zfar, znear))), One >> >>)

\* perspective(fovy, aspect, znear, zfar); fovy is an angle (given in degrees,
\* fovy / 360 * pi is half of it in radians)
perspective(fovy, aspect, znear, zfar) ==
    IF znear = zfar THEN Raise("AssertionError")
    ELSE The({ The({ frustum(RNeg(w), w, RNeg(h), h, znear, zfar) :
                     w \in {RMul(h, aspect)} }) :
               h \in {RMul(th_tan(HalfAngle(fovy)), znear)} })

----------------------------------------------------------------------------
(* Conversions with angles, and the component order                         *)

\* euler2quat(euler): euler is a tuple of angles (roll, pitch, yaw)
euler2quat(euler) ==
    IF Len(euler) # 3 THEN Raise("AssertionError")
    ELSE The({ LET cy == th_cos(yaw)    sy == th_sin(yaw)
                   cr == th_cos(roll)   sr == th_sin(roll)
                   cp == th_cos(pitch)  sp == th_sin(pitch)
               IN  Ok(<< RSub(RMul(RMul(cy, sr), cp), RMul(RMul(sy, cr), sp)),
                         RAdd(RMul(RMul(cy, cr), sp), RMul(RMul(sy, sr), cp)),
                         RSub(RMul(RMul(sy, cr), cp), RMul(RMul(cy, sr), sp)),
                         RAdd(RMul(RMul(cy, cr), cp), RMul(RMul(sy, sr), sp)) >>) :
               roll \in {HalfAngle(euler[1])}, pitch \in {HalfAngle(euler[2])},
               yaw \in {HalfAngle(euler[3])} })

\* convert_quat(q, to): q[3] of fewer than four components is an IndexError
convert_quat(q, to) ==
    IF to \notin {"xyzw", "wxyz"} THEN Raise("ValueError")
    ELSE IF Len(q) < 4 THEN Raise("IndexError")
    ELSE IF to = "xyzw" THEN Ok(<<q[2], q[3], q[4], q[1]>>)
    ELSE Ok(<<q[4], q[1], q[2], q[3]>>)

\* An axis-angle vector is written [dir, angle]: the vector angle * dir, dir a
\* unit vector (any vector when the angle is zero).
AxisAngle(dir, angle) == [dir |-> dir, angle |-> angle]

\* axisangle2quat(vec, eps=1e-6) on one vector: th.norm(vec) is vec.angle and
\* vec / angle is vec.dir
axisangle2quat(vec) ==
    IF AngleGtEps6(vec.angle)
    THEN The({ << RMul(vec.dir[1], th_sin(h)), RMul(vec.dir[2], th_sin(h)),
                  RMul(vec.dir[3], th_sin(h)), th_cos(h) >> : h \in {HalfAngle(vec.angle)} })
    ELSE <<Zero, Zero, Zero, One>>

\* quat2axisangle(quat) on one quaternion: zeros where den is zero, else
\* quat[:3] * 2 acos(w) / den
quat2axisangle(quat) ==
    The({ The({ IF den = Zero THEN AxisAngle(<<Zero, Zero, Zero>>, Angle(One, Zero))
                ELSE AxisAngle(VDivS(VecPart(quat), den), TwiceAngle(th_acos(w))) :
                den \in {RSqrt(RSub(One, RMul(w, w)))} }) :
          w \in {RClip(quat[4], RNeg(One), One)} })

----------------------------------------------------------------------------
(* The utility functions applied to their inputs (SpecUtil): one call per   *)
(* behaviour, the call's arguments kept in q1, q0 and args.                 *)
(* Call(f, a1, a0, rest, r): f was called with the quaternions a1 and a0    *)
(* (quaternion1 and quaternion0, quat1 and quat0) and returned or raised r. *)

InitUtil ==
    /\ fn = "none" /\ ret = NoValue
    /\ q1 = NoValue /\ q0 = NoValue
    /\ pose1 = NoValue /\ pose0 = NoValue /\ args = NoValue
    /\ NoFrames /\ NoSampling

Call(f, a1, a0, rest, r) ==
    /\ fn = "none"
    /\ fn' = f /\ q1' = a1 /\ q0' = a0 /\ args' = rest /\ ret' = r
    /\ UNCHANGED <<pose1, pose0>>
    /\ UNCHANGED frameVars /\ UNCHANGED moreVars

\* unit quaternions handed to quat_slerp: UnitQuatInputs and two more about z,
\* at 7/25 from the identity and from (0, 0, 3/5, 4/5)
SlerpQuatInputs ==
    UnitQuatInputs \cup { Q4(Zero, Zero, <<24, 25>>, <<7, 25>>),
                          Q4(Zero, Zero, <<-3, 5>>, <<4, 5>>) }

\* frac: below 0, 0, 1, above 1, for every pair; 1/2 for the pairs whose half
\* angle has a rational sine and cosine
SlerpFracs(a, b) ==
    { <<-1, 2>>, Zero, One, <<3, 2>> }
        \cup (IF RAbs(VDot(a, b)) = <<7, 25>> THEN {Half} ELSE {})

CallQuatSlerp ==
    \E a \in SlerpQuatInputs, b \in SlerpQuatInputs, sp \in BOOLEAN :
        \E f \in SlerpFracs(a, b) :
            Call("quat_slerp", b, a, [frac |-> f, shortestpath |-> sp],
                 Ok(quat_slerp(a, b, f, sp)))

\* unit quaternions handed to quat2mat and mat2quat: UnitQuatInputs and one
\* more for each of the largest-diagonal formulas with w # 0, one of them
\* with w < 0
ConvQuatInputs ==
    UnitQuatInputs \cup { Q4(<<12, 13>>, Zero, Zero, <<5, 13>>),
                          Q4(Zero, <<12, 13>>, Zero, <<-5, 13>>),
                          Q4(Zero, Zero, <<12, 13>>, <<5, 13>>) }

CallQuat2Mat ==
    \E q \in ConvQuatInputs : Call("quat2mat", q, NoValue, NoValue, Ok(quat2mat(q)))

\* mat2quat of the matrix of q
CallMat2Quat ==
    \E q \in ConvQuatInputs :
        Call("mat2quat", q, NoValue, [rmat |-> quat2mat(q)], Ok(mat2quat(quat2mat(q))))

\* 3-vectors with a rational length
VecInputs ==
    { V3(0, 0, 0), V3(3, 0, 0), <<Half, Zero, Zero>>, V3(0, -1, 0),
      V3(3, 4, 0), V3(1, 2, 2), V3(2, -3, 6) }

\* poses of A in B handed to the velocity and force transforms, as 4x4 matrices
TransportPoses ==
    { pose2mat(Pose(p, q)) :
        p \in { V3(0, 0, 0), V3(1, 2, 3) },
        q \in { QIdentity, Q4(Zero, Zero, <<3, 5>>, <<4, 5>>),
                Q4(<<2, 3>>, <<-1, 3>>, Zero, <<2, 3>>) } }

CallVelInAToVelInB ==
    \E v \in VecInputs, w \in { V3(0, 0, 0), V3(0, 0, 1), V3(1, 2, 2) }, P \in TransportPoses :
        Call("vel_in_A_to_vel_in_B", NoValue, NoValue,
             [vel_A |-> v, ang_vel_A |-> w, pose_A_in_B |-> P],
             vel_in_A_to_vel_in_B(v, w, P))

\* the velocity mapped with the pose and the result mapped back with the
\* inverted pose
CallVelRoundTrip ==
    \E v \in VecInputs, w \in { V3(0, 0, 0), V3(0, 0, 1), V3(1, 2, 2) }, P \in TransportPoses :
        Call("vel_round_trip", NoValue, NoValue,
             [vel_A |-> v, ang_vel_A |-> w, pose_A_in_B |-> P],
             The({ IF there.raised # "none" THEN there
                   ELSE vel_in_A_to_vel_in_B(there.value[1], there.value[2], pose_inv(P)) :
                   there \in {vel_in_A_to_vel_in_B(v, w, P)} }))

CallForceInAToForceInB ==
    \E f \in VecInputs, t \in { V3(0, 0, 0), V3(0, 0, 1), V3(1, 2, 2) }, P \in TransportPoses :
        Call("force_in_A_to_force_in_B", NoValue, NoValue,
             [force_A |-> f, torque_A |-> t, pose_A_in_B |-> P],
             force_in_A_to_force_in_B(f, t, P))

\* limits of clip_translation
LimitInputs == { Zero, Half, One, I2R(3), I2R(5), I2R(10) }

CallClipTranslation ==
    \E d \in VecInputs, l \in LimitInputs :
        Call("clip_translation", NoValue, NoValue, [dpos |-> d, limit |-> l],
             Ok(clip_translation(d, l)))

\* quaternions handed to clip_rotation: rotations about a coordinate axis and
\* about general axes with w >= 0 and w < 0, the two quaternions of the zero
\* rotation, and two that are not normalised
ClipQuatInputs ==
    { QIdentity, QI(0, 0, 0, -1), QI(1, 0, 0, 0),
      Q4(Zero, Zero, <<3, 5>>, <<4, 5>>), Q4(<<3, 5>>, Zero, Zero, <<-4, 5>>),
      Q4(Zero, Zero, <<24, 25>>, <<7, 25>>), Q4(<<2, 3>>, <<2, 3>>, <<1, 3>>, Zero),
      Q4(Zero, <<72, 125>>, <<96, 125>>, <<7, 25>>),
      Q4(<<-6, 35>>, <<9, 35>>, <<18, 35>>, <<-4, 5>>),
      QI(0, 0, 0, 2), QI(0, 0, 3, 4) }

\* angles whose halves have rational points: 0, about 74, 106, 180, 254 and
\* 286 degrees
AngleInputs ==
    { Angle(One, Zero), Angle(<<7, 25>>, <<24, 25>>), Angle(<<-7, 25>>, <<24, 25>>),
      Angle(RNeg(One), Zero), Angle(<<-7, 25>>, <<-24, 25>>), Angle(<<7, 25>>, <<-24, 25>>) }

CallClipRotation ==
    \E q \in ClipQuatInputs, l \in AngleInputs :
        Call("clip_rotation", q, NoValue, [limit |-> l], Ok(clip_rotation(q, l)))

\* batches of one and of two quaternions
BatchInputs ==
    { <<q>> : q \in UnitQuatInputs }
        \cup { <<QIdentity, q>> : q \in { QI(1, 0, 0, 0), Q4(Half, Half, Half, Half) } }

CallGetOrientationError ==
    \E d \in BatchInputs, c \in BatchInputs :
        /\ Len(d) = Len(c)
        /\ Call("get_orientation_error", NoValue, NoValue, [desired |-> d, current |-> c],
                get_orientation_error(d, c))

\* clip planes: equal and different pairs
CallFrustum ==
    \E left \in {I2R(-1), Zero}, right \in {Zero, One}, bottom \in {I2R(-1), Zero},
       top \in {Zero, One}, znear \in {One, Two}, zfar \in {One, Two, I2R(10)} :
        Call("frustum", NoValue, NoValue,
             [left |-> left, right |-> right, bottom |-> bottom, top |-> top,
              znear |-> znear, zfar |-> zfar],
             frustum(left, right, bottom, top, znear, zfar))

CallOrtho ==
    \E left \in {I2R(-1), Zero}, right \in {Zero, One}, bottom \in {I2R(-1), Zero},
       top \in {Zero, One}, znear \in {One, Two}, zfar \in {One, Two, I2R(10)} :
        Call("ortho", NoValue, NoValue,
             [left |-> left, right |-> right, bottom |-> bottom, top |-> top,
              znear |-> znear, zfar |-> zfar],
             ortho(left, right, bottom, top, znear, zfar))

\* fields of view of 0, about 74 and about 106 degrees
CallPerspective ==
    \E fovy \in { Angle(One, Zero), Angle(<<7, 25>>, <<24, 25>>), Angle(<<-7, 25>>, <<24, 25>>) },
       aspect \in { Zero, One, <<4, 3>> }, znear \in { Zero, One, Two }, zfar \in { One, I2R(10) } :
        Call("perspective", NoValue, NoValue,
             [fovy |-> fovy, aspect |-> aspect, znear |-> znear, zfar |-> zfar],
             perspective(fovy, aspect, znear, zfar))

\* tensors of 3, 4 and 5 numbers
ShapeInputs ==
    { V3(1, 0, 0), V3(1, 2, 2),
      QI(0, 0, 0, 1), QI(1, 0, 0, 0), Q4(Half, Half, Half, Half),
      <<One, Zero, Zero, Zero, I2R(9)>>, <<Zero, Zero, Zero, One, One>> }

RECURSIVE SumSq(_)
SumSq(t) == IF t = <<>> THEN Zero ELSE RAdd(RMul(Head(t), Head(t)), SumSq(Tail(t)))

\* quat_multiply, quat_conjugate and quat_inverse read the components 0 to 3 of
\* their arguments by index: an IndexError when there are fewer
CallQuatMultiplyShape ==
    \E a \in ShapeInputs, b \in ShapeInputs :
        Call("quat_multiply", a, b, NoValue,
             IF Len(a) < 4 \/ Len(b) < 4 THEN Raise("IndexError")
             ELSE Ok(quat_multiply(a, b)))

CallQuatConjugateShape ==
    \E a \in ShapeInputs :
        Call("quat_conjugate", a, NoValue, NoValue,
             IF Len(a) < 4 THEN Raise("IndexError") ELSE Ok(quat_conjugate(a)))

\* quat_conjugate(quaternion) / th.dot(quaternion, quaternion): the dot product
\* is over all the components, and a tensor of 4 divided by a scalar
CallQuatInverseShape ==
    \E a \in ShapeInputs :
        Call("quat_inverse", a, NoValue, NoValue,
             IF Len(a) < 4 THEN Raise("IndexError")
             ELSE Ok(VDivS(quat_conjugate(a), SumSq(a))))

\* quat_apply asserts the last dimensions before it computes
CallQuatApplyShape ==
    \E a \in ShapeInputs, v \in ShapeInputs :
        Call("quat_apply", a, NoValue, [vec |-> v],
             IF Len(a) # 4 \/ Len(v) # 3 THEN Raise("AssertionError")
             ELSE Ok(quat_apply(a, v)))

CallConvertQuat ==
    \E a \in ShapeInputs, to \in {"xyzw", "wxyz", "zyxw"} :
        Call("convert_quat", a, NoValue, [to |-> to], convert_quat(a, to))

\* tuples of 2, 3 and 4 Euler angles
CallEuler2Quat ==
    \E e \in { <<r, p>> : r \in AngleInputs, p \in AngleInputs }
             \cup { <<r, p, y>> : r \in AngleInputs, p \in AngleInputs, y \in AngleInputs }
             \cup { <<r, r, r, r>> : r \in AngleInputs } :
        Call("euler2quat", NoValue, NoValue, [euler |-> e], euler2quat(e))

\* velocities and forces of 3, 4 and 5 components
CallTransportShape ==
    \E v \in ShapeInputs, w \in ShapeInputs, P \in TransportPoses, f \in {"vel", "force"} :
        Call(f, NoValue, NoValue, [lin |-> v, ang |-> w, pose_A_in_B |-> P],
             IF f = "vel" THEN vel_in_A_to_vel_in_B(v, w, P)
             ELSE force_in_A_to_force_in_B(v, w, P))

\* vectors to normalise, the zero vector among them
CallNormalize ==
    \E v \in VecInputs : Call("normalize", NoValue, NoValue, [v |-> v], Ok(normalize(v)))

\* unit_vector of a 1-D tensor and of a batch of two
CallUnitVector ==
    \/ \E v \in VecInputs \cup UnitQuatInputs \cup {QI(0, 0, 0, 0)} :
          Call("unit_vector", NoValue, NoValue, [data |-> v, ndim |-> 1], Ok(unit_vector(v, 1)))
    \/ \E v \in VecInputs, u \in {V3(0, 0, 0), V3(0, 3, 4)} :
          Call("unit_vector", NoValue, NoValue, [data |-> <<v, u>>, ndim |-> 2],
               Ok(unit_vector(<<v, u>>, 2)))

\* axis-angle vectors: the zero vector, one of 5e-7 rad (below eps; the point
\* is that of float32), and rotations about z and about a general axis
AxisAngleInputs ==
    { AxisAngle(V3(0, 0, 0), Angle(One, Zero)),
      AxisAngle(V3(1, 0, 0), Angle(One, <<1, 2000000>>)) }
        \cup { AxisAngle(d, a) : d \in { V3(0, 0, 1), <<<<2, 3>>, <<2, 3>>, <<1, 3>>>> },
                                 a \in AngleInputs \ {Angle(One, Zero)} }

CallAxisAngle2Quat ==
    \E v \in AxisAngleInputs :
        Call("axisangle2quat", NoValue, NoValue, [vec |-> v], Ok(axisangle2quat(v)))

\* quaternions with a rational sine of the half angle; the last is a rotation
\* of 1e-6 rad, whose w is 1 in float32
CallQuat2AxisAngle ==
    \E q \in (ClipQuatInputs \ {QI(0, 0, 0, 2), QI(0, 0, 3, 4)})
             \cup { Q4(<<1, 2000000>>, Zero, Zero, One) } :
        Call("quat2axisangle", q, NoValue, NoValue, Ok(quat2axisangle(q)))

NextUtil ==
    \/ CallQuatSlerp
    \/ CallQuat2Mat
    \/ CallMat2Quat
    \/ CallVelInAToVelInB
    \/ CallVelRoundTrip
    \/ CallForceInAToForceInB
    \/ CallClipTranslation
    \/ CallClipRotation
    \/ CallGetOrientationError
    \/ CallFrustum
    \/ CallOrtho
    \/ CallPerspective
    \/ CallQuatMultiplyShape
    \/ CallQuatConjugateShape
    \/ CallQuatInverseShape
    \/ CallQuatApplyShape
    \/ CallConvertQuat
    \/ CallEuler2Quat
    \/ CallTransportShape
    \/ CallNormalize
    \/ CallUnitVector
    \/ CallAxisAngle2Quat
    \/ CallQuat2AxisAngle

SpecUtil == InitUtil /\ [][NextUtil]_vars

C12_MatQuatRoundTrip ==
    fn = "mat2quat" =>
        /\ ret.raised = "none"
        /\ IsUnit(ret.value)
        /\ SameRot(ret.value, q1)
        /\ quat2mat(ret.value) = args.rmat
        /\ args.rmat = quat2mat(q1)

\* the quaternion of a half turn about a general axis (trace -1, m22 the
\* largest diagonal element) has been recovered from its matrix
C12_Witness ==
    /\ fn = "mat2quat"
    /\ q1 = Q4(<<-2, 7>>, <<3, 7>>, <<6, 7>>, Zero)
    /\ RAdd(RAdd(args.rmat[1][1], args.rmat[2][2]), args.rmat[3][3]) = RNeg(One)
    /\ ret.value = q1

\* C13: for every pose P of A in B and every velocity pair (v, w), mapping
\* (v, w) with vel_in_A_to_vel_in_B using P and the result back using
\* pose_inv(P) returns (v, w).
C13_VelocityRoundTrip ==
    fn = "vel_round_trip" =>
        /\ ret.raised = "none"
        /\ ret.value = <<args.vel_A, args.ang_vel_A>>

\* C14: with R and t the rotation and translation of pose_A_in_B,
\* vel_in_A_to_vel_in_B returns (R v + t x (R w), R w) and
\* force_in_A_to_force_in_B returns (R^T f, R^T tau - R^T (t x f)).
C14_TransportFormulas ==
    /\ fn = "vel_in_A_to_vel_in_B" =>
        LET R == Rot3(args.pose_A_in_B)
            t == Trans3(args.pose_A_in_B)
        IN  ret = Ok(<< VAdd(MatVec(R, args.vel_A), Cross(t, MatVec(R, args.ang_vel_A))),
                        MatVec(R, args.ang_vel_A) >>)
    /\ fn = "force_in_A_to_force_in_B" =>
        LET Rt == Transpose(Rot3(args.pose_A_in_B))
            t == Trans3(args.pose_A_in_B)
        IN  ret = Ok(<< MatVec(Rt, args.force_A),
                        VSub(MatVec(Rt, args.torque_A), MatVec(Rt, Cross(t, args.force_A))) >>)

\* every entry of a 4x4 matrix is a finite number
MIsFinite(M) == \A i \in 1..4 : \A j \in 1..4 : RIsFinite(M[i][j])

\* C15: frustum and ortho raise an assertion error exactly when left = right,
\* bottom = top or znear = zfar, perspective exactly when znear = zfar or the
\* frustum it derives has w = 0 or h = 0; a matrix that is returned has no
\* entry that is inf or NaN, and its entries are the quotients by the
\* differences of the clip planes.
C15_DegenerateFrustum ==
    /\ fn \in {"frustum", "ortho"} =>
        /\ ret.raised \in {"none", "AssertionError"}
        /\ ret.raised = "AssertionError" <=>
             (args.left = args.right \/ args.bottom = args.top \/ args.znear = args.zfar)
        /\ ret.raised = "none" =>
             /\ MIsFinite(ret.value)
             /\ RMul(ret.value[1][1], RSub(args.right, args.left))
                  = (IF fn = "frustum" THEN RMul(Two, args.znear) ELSE Two)
             /\ RMul(ret.value[2][2], RSub(args.top, args.bottom))
                  = (IF fn = "frustum" THEN RMul(Two, args.znear) ELSE Two)
             /\ RMul(ret.value[3][3], RSub(args.zfar, args.znear))
                  = (IF fn = "frustum" THEN RNeg(RAdd(args.zfar, args.znear)) ELSE RNeg(Two))
    /\ fn = "perspective" =>
        LET h == RMul(RDiv(args.fovy.s, RAdd(One, args.fovy.c)), args.znear)
            w == RMul(h, args.aspect)
        IN  /\ ret.raised \in {"none", "AssertionError"}
            /\ ret.raised = "AssertionError" <=>
                 (args.znear = args.zfar \/ w = Zero \/ h = Zero)
            /\ ret.raised = "none" =>
                 /\ MIsFinite(ret.value)
                 /\ RMul(ret.value[1][1], w) = args.znear
                 /\ RMul(ret.value[2][2], h) = args.znear

\* perspective with znear # zfar and a field of view of about 74 degrees has
\* been rejected because the aspect ratio 0 gives a frustum of zero width
C15_Witness ==
    /\ fn = "perspective"
    /\ args.fovy = Angle(<<7, 25>>, <<24, 25>>)
    /\ args.aspect = Zero
    /\ args.znear = One /\ args.zfar = I2R(10)
    /\ ret.raised = "AssertionError"

\* C16: clip_translation(delta, limit), limit >= 0: when |delta| > limit the
\* result is (delta limit / |delta|, True), of norm limit in the direction of
\* delta; otherwise (delta, False).  The norm returned is at most limit and a
\* clipped value clipped again is returned with False.
C16_ClipTranslation ==
    fn = "clip_translation" =>
        LET n == VNorm(args.dpos)
            r == ret.value[1]
        IN  /\ ret.raised = "none"
            /\ IF RGt(n, args.limit)
               THEN /\ ret.value[2] = TRUE
                    /\ r = VScale(args.dpos, RDiv(args.limit, n))
                    /\ VNorm(r) = args.limit
                    /\ Cross(r, args.dpos) = V3(0, 0, 0)
                    /\ RLe(Zero, VDot(r, args.dpos))
               ELSE ret.value = <<args.dpos, FALSE>>
            /\ RLe(VNorm(r), args.limit)
            /\ clip_translation(r, args.limit) = <<r, FALSE>>

\* the translation (3, 0, 0) has been clipped to the limit 1
C16_Witness ==
    /\ fn = "clip_translation"
    /\ args.dpos = V3(3, 0, 0) /\ args.limit = One
    /\ ret.value = <<V3(1, 0, 0), TRUE>>

\* C17 as stated: clip_rotation(q, limit) returns a zero rotation (1 - w^2 = 0
\* after normalisation) unmodified with False; otherwise, a being the angle of
\* q about its axis, when a > limit it returns with True the quaternion of
\* angle limit about the same axis, and when a <= limit the rotation of q
\* with False; the angle returned is at most limit and the flag is True
\* exactly when the rotation was changed.
C17_ZeroRotationUnmodified ==
    fn = "clip_rotation" =>
        LET n == VDivS(q1, VNorm(q1))
            axis == VDivS(VecPart(n), VNorm(VecPart(n)))
            half == HalfAngle(args.limit)
            r == ret.value[1]
        IN  /\ ret.raised = "none"
            /\ IF RMul(n[4], n[4]) = One
               THEN ret.value = <<q1, FALSE>>
               ELSE /\ IF RLt(n[4], half.c)
                       THEN /\ ret.value[2] = TRUE
                            /\ r[4] = half.c
                            /\ VecPart(r) = VScale(axis, half.s)
                       ELSE ret.value[2] = FALSE /\ quat2mat(r) = quat2mat(q1)
                    /\ RLe(half.c, r[4])
            /\ ret.value[2] <=> quat2mat(r) # quat2mat(q1)

\* C17 (amended): clip_rotation(q, limit), with n = q / |q| (q itself for a
\* unit q): when 1 - w^2 = 0 it returns (n, False); otherwise, a = 2 acos(w)
\* being the angle of n about its axis, when a > limit it returns with True
\* the unit quaternion of angle limit about the same axis, and when
\* a <= limit it returns (n, False).  The angle returned is at most limit, and
\* the flag is True exactly when the rotation returned is not the rotation
\* of q.
C17_ClipRotation ==
    fn = "clip_rotation" =>
        LET n == VDivS(q1, VNorm(q1))
            axis == VDivS(VecPart(n), VNorm(VecPart(n)))
            half == HalfAngle(args.limit)
            r == ret.value[1]
        IN  /\ ret.raised = "none"
            /\ IsUnit(q1) => n = q1
            /\ IF RMul(n[4], n[4]) = One
               THEN ret.value = <<n, FALSE>>
               ELSE /\ IF RLt(n[4], half.c)
                       THEN /\ ret.value[2] = TRUE
                            /\ IsUnit(r)
                            /\ r[4] = half.c
                            /\ VecPart(r) = VScale(axis, half.s)
                       ELSE ret.value = <<n, FALSE>>
                    /\ RLe(half.c, r[4])
            /\ ret.value[2] <=> ~ SameRot(r, n)
            /\ ret.value[2] <=> quat2mat(r) # quat2mat(q1)

\* a rotation of about 286 degrees about x (w < 0) has been clipped to the
\* limit of about 106 degrees about x
C17_Witness ==
    /\ fn = "clip_rotation"
    /\ q1 = Q4(<<3, 5>>, Zero, Zero, <<-4, 5>>)
    /\ args.limit = Angle(<<-7, 25>>, <<24, 25>>)
    /\ ret.value = << Q4(<<4, 5>>, Zero, Zero, <<3, 5>>), TRUE >>

\* C18: get_orientation_error(desired, current) returns, for each pair of the
\* batch, the vector part of q_r = desired * conjugate(current) multiplied by
\* the sign of the scalar part of q_r; the result is the same for -desired, and
\* it is the zero vector only when desired and current are the same rotation.
C18_OrientationError ==
    fn = "get_orientation_error" =>
        /\ ret.raised = "none"
        /\ \A n \in 1..Len(args.desired) :
             LET q_r == Hamilton(args.desired[n], quat_conjugate(args.current[n]))
             IN  /\ ret.value[n] = VScale(VecPart(q_r), RSign(q_r[4]))
                 /\ ret.value[n] = V3(0, 0, 0) => SameRot(args.desired[n], args.current[n])
        /\ ret = get_orientation_error([n \in 1..Len(args.desired) |-> VNeg(args.desired[n])],
                                       args.current)

\* C19: a call with a quaternion that has not exactly 4 components, or a
\* vector (or Euler triple) that has not exactly 3, raises an error and returns
\* nothing: quat_multiply, quat_conjugate, quat_inverse, quat_apply,
\* convert_quat, euler2quat and the velocity and force transforms use neither
\* the first components only nor a padded input.
C19_ShapeRejected ==
    /\ fn = "quat_multiply" => ((Len(q1) # 4 \/ Len(q0) # 4) => ret.raised # "none")
    /\ fn \in {"quat_conjugate", "quat_inverse", "convert_quat"} =>
            (Len(q1) # 4 => ret.raised # "none")
    /\ fn = "quat_apply" => ((Len(q1) # 4 \/ Len(args.vec) # 3) => ret.raised # "none")
    /\ fn = "euler2quat" => (Len(args.euler) # 3 => ret.raised # "none")
    /\ fn \in {"vel", "force"} =>
            ((Len(args.lin) # 3 \/ Len(args.ang) # 3) => ret.raised # "none")

\* C20: no function returns NaN or inf for a degenerate input of the right
\* shape: normalize and unit_vector (1-D and batched) of a zero vector return a
\* finite vector, quat_slerp of identical or antipodal quaternions returns an
\* endpoint, axisangle2quat of an angle of at most eps returns the identity
\* and quat2axisangle of a zero rotation the zero vector.
C20_NoNanOrInf ==
    /\ fn = "normalize" => VIsFinite(ret.value)
    /\ fn = "unit_vector" =>
            IF args.ndim = 1 THEN VIsFinite(ret.value)
            ELSE \A n \in 1..Len(ret.value) : VIsFinite(ret.value[n])
    /\ fn = "quat_slerp" =>
            /\ VIsFinite(ret.value)
            /\ (q1 = q0 \/ q1 = VNeg(q0)) => ret.value \in {q0, q1}
    /\ fn = "axisangle2quat" =>
            /\ VIsFinite(ret.value)
            /\ ~ AngleGtEps6(args.vec.angle) => ret.value = QIdentity
    /\ fn = "quat2axisangle" =>
            /\ VIsFinite(ret.value.dir)
            /\ RMul(q1[4], q1[4]) = One =>
                    ret.value = AxisAngle(V3(0, 0, 0), Angle(One, Zero))

----------------------------------------------------------------------------
(* Calls on the caller's tensors (SpecMore).  A tensor argument is an       *)
(* object: args.before holds the values of the argument tensors when the    *)
(* call is made and args.after the values the same tensors hold when it     *)
(* has returned; args.second is what a second call on the same tensors      *)
(* returns.                                                                 *)

\* rotation_matrix(angle, direction, point=None): angle is an angle, point is
\* NoValue for None.  The 4x4 matrix of R = cosa I + (1 - cosa) d d^T + skew(sina d),
\* d = direction / |direction|, with M[:3, 3] = point - R point for a point.
rotation_matrix(angle, direction, point) ==
    The({ The({ IF point = NoValue THEN Hom(R, <<Zero, Zero, Zero>>)
                ELSE Hom(R, VSub(point, MatVec(R, point))) :
                R \in { Tup([i \in 1..3 |-> Tup([j \in 1..3 |->
                          RAdd(RAdd(IF i = j THEN th_cos(angle) ELSE Zero,
                                    RMul(RMul(d[i], d[j]), RSub(One, th_cos(angle)))),
                               skew_symmetric_translation(VScale(d, th_sin(angle)))[i][j])])]) } }) :
          d \in { VDivS(direction, VNorm(direction)) } })

\* The direction tensor of the caller after rotation_matrix: line 1098 binds
\* the name direction to a new tensor (direction / norm), and the in-place
\* direction *= sina of line 1104 scales that new tensor.
rotation_matrix_direction_after(angle, direction) == direction

\* The quat tensor of the caller after quat2axisangle(quat).  quat.reshape(-1, 4)
\* is a view of a contiguous tensor and a copy of any other, and
\* quat[:, 3] = th.clamp(quat[:, 3], -1.0, 1.0) writes into it.
quat2axisangle_quat_after(quat, contiguous) ==
    IF contiguous THEN [quat EXCEPT ![4] = RClip(quat[4], RNeg(One), One)]
    ELSE quat

\* get_orientation_diff_in_radian(orn0, orn1): the angle between the axes of
\* the two axis-angle vectors; vec /= th.norm(vec) is 0 / 0 for a zero vector
get_orientation_diff_in_radian(orn0, orn1) ==
    The({ IF v0.angle = Angle(One, Zero) \/ v1.angle = Angle(One, Zero)
          THEN Angle(<<0, 0>>, <<0, 0>>)
          ELSE th_acos(VDot(v0.dir, v1.dir)) :
          v0 \in {quat2axisangle(orn0)}, v1 \in {quat2axisangle(orn1)} })

\* f called on tensors holding before, which hold after when it has returned r,
\* then called again on the same tensors, returning r2
CallTwice(f, before, after, r, r2) ==
    Call(f, NoValue, NoValue, [before |-> before, after |-> after, second |-> r2], r)

CallQuat2AxisAngleTwice ==
    \E q \in { QIdentity, Q4(Zero, Zero, <<3, 5>>, <<4, 5>>),
               Q4(<<3, 5>>, Zero, Zero, <<-4, 5>>), QI(1, 0, 0, 0),
               QI(0, 0, 0, 2), QI(0, 0, 0, -3),
               Q4(Zero, Zero, Zero, <<8388609, 8388608>>) },
       contiguous \in BOOLEAN :
        CallTwice("quat2axisangle", <<q>>,
                  <<quat2axisangle_quat_after(q, contiguous)>>,
                  quat2axisangle(q),
                  quat2axisangle(quat2axisangle_quat_after(q, contiguous)))

CallGetOrientationDiffTwice ==
    \E a \in { QI(1, 0, 0, 0), Q4(Zero, Zero, <<3, 5>>, <<4, 5>>), QIdentity,
               Q4(Zero, Zero, Zero, <<8388609, 8388608>>) },
       b \in { QI(0, 1, 0, 0), Q4(Zero, Zero, <<-3, 5>>, <<4, 5>>), QI(0, 0, 1, 0) } :
        CallTwice("get_orientation_diff_in_radian", <<a, b>>,
                  <<quat2axisangle_quat_after(a, TRUE), quat2axisangle_quat_after(b, TRUE)>>,
                  get_orientation_diff_in_radian(a, b),
                  get_orientation_diff_in_radian(quat2axisangle_quat_after(a, TRUE),
                                                 quat2axisangle_quat_after(b, TRUE)))

CallRotationMatrixTwice ==
    \E angle \in AngleInputs, direction \in { V3(0, 0, 1), V3(0, 3, 4), V3(1, 2, 2) },
       point \in { NoValue, V3(1, 0, 0) } :
        CallTwice("rotation_matrix", <<angle, direction, point>>,
                  <<angle, rotation_matrix_direction_after(angle, direction), point>>,
                  rotation_matrix(angle, direction, point),
                  rotation_matrix(angle, rotation_matrix_direction_after(angle, direction),
                                  point))

\* quat_slerp, clip_rotation and pose_inv assign to no element of an argument:
\* quat0, quat1 and quat are rebound to new tensors, pose_inv fills a new one
CallQuatSlerpTwice ==
    \E a \in SlerpQuatInputs, b \in SlerpQuatInputs, sp \in BOOLEAN :
        \E f \in SlerpFracs(a, b) :
            CallTwice("quat_slerp", <<a, b, f, sp>>, <<a, b, f, sp>>,
                      quat_slerp(a, b, f, sp), quat_slerp(a, b, f, sp))

CallClipRotationTwice ==
    \E q \in ClipQuatInputs, l \in AngleInputs :
        CallTwice("clip_rotation", <<q, l>>, <<q, l>>, clip_rotation(q, l), clip_rotation(q, l))

CallPoseInvTwice ==
    \E P \in TransportPoses :
        CallTwice("pose_inv", <<P>>, <<P>>, pose_inv(P), pose_inv(P))

\* C21: every call leaves each argument tensor with the values it held before
\* the call and leaves the module-level names as they were at import, and a
\* second call with the same arguments returns what the first returned.
C21_Pure ==
    /\ tables = ModuleTables
    /\ fn \in { "quat2axisangle", "get_orientation_diff_in_radian", "rotation_matrix",
                "quat_slerp", "clip_rotation", "pose_inv" } =>
            /\ args.after = args.before
            /\ args.second = ret

\* C24: _AXES2TUPLE has 24 codes mapped to 24 pairwise distinct tuples
\* (first axis 0..2, parity, repetition and frame 0..1), and _TUPLE2AXES is its
\* inverse: code -> tuple -> code and tuple -> code -> tuple are the identity.
C24_AxesTables ==
    LET A == tables.AXES2TUPLE
        T == tables.TUPLE2AXES
    IN  /\ Cardinality(DOMAIN A) = 24
        /\ \A c \in DOMAIN A :
             A[c] \in {0, 1, 2} \X {0, 1} \X {0, 1} \X {0, 1}
        /\ \A c \in DOMAIN A : \A e \in DOMAIN A : c # e => A[c] # A[e]
        /\ Cardinality(DOMAIN T) = 24
        /\ DOMAIN T = { A[c] : c \in DOMAIN A }
        /\ \A c \in DOMAIN A : T[A[c]] = c
        /\ \A t \in DOMAIN T : T[t] \in DOMAIN A /\ A[T[t]] = t

\* the module is imported: the last code of the table and its tuple map to
\* each other, and a function of the module has been called
C24_Witness ==
    /\ fn # "none"
    /\ tables.AXES2TUPLE["rzyz"] = <<2, 1, 1, 1>>
    /\ tables.TUPLE2AXES[<<2, 1, 1, 1>>] = "rzyz"

\* pose2mat of positions and quaternions, the position (150, 150, 100) and a
\* quaternion that is not normalised among them
CallPose2MatOf ==
    \E pos \in PosInputs \cup {V3(150, 150, 100)}, orn \in UnitQuatInputs \cup {QI(0, 0, 0, 2)} :
        Call("pose2mat", orn, NoValue, [pos |-> pos], pose2mat(Pose(pos, orn)))

\* make_pose of a translation and the rotation matrix of a quaternion
CallMakePose ==
    \E translation \in PosInputs, q \in UnitQuatInputs :
        Call("make_pose", q, NoValue, [translation |-> translation, rotation |-> quat2mat(q)],
             make_pose(translation, quat2mat(q)))

\* pose_transform, with the product mat1 @ mat0 it hands to mat2pose
CallPoseProduct ==
    \E P1 \in { Pose(V3(1, 1, 1), Q4(Zero, Zero, <<3, 5>>, <<4, 5>>)),
                 Pose(V3(-1, 2, 5), Q4(Half, Half, Half, Half)) },
       P0 \in PoseInputs :
        Call("pose_transform", P1.quat, P0.quat,
             [pos1 |-> P1.pos, pos0 |-> P0.pos,
              product |-> MatMul(pose2mat(P1), pose2mat(P0))],
             pose_transform(P1.pos, P1.quat, P0.pos, P0.quat))

\* mat2pose of the matrix pose2mat made
CallMat2PoseOf ==
    \E pos \in PosInputs \cup {V3(150, 150, 100)}, orn \in UnitQuatInputs :
        Call("mat2pose", orn, NoValue, [pos |-> pos, hmat |-> pose2mat(Pose(pos, orn))],
             mat2pose(pose2mat(Pose(pos, orn))))

\* C22: pose2mat((pos, quat)) is a 4x4 matrix with translation column pos,
\* top-left block quat2mat(quat) (the identity for quat = (0, 0, 0, 1)) and
\* bottom row (0, 0, 0, 1); make_pose, pose_inv and the product of two pose
\* matrices have that bottom row too, and mat2pose(pose2mat((pos, quat)))
\* returns pos and, for a unit quat, quat or -quat.
C22_Pose2Mat ==
    /\ fn = "pose2mat" =>
            /\ Len(ret) = 4 /\ \A i \in 1..4 : Len(ret[i]) = 4
            /\ Trans3(ret) = args.pos
            /\ Rot3(ret) = quat2mat(q1)
            /\ q1 = QIdentity => Rot3(ret) = Eye(3)
            /\ ret[4] = <<Zero, Zero, Zero, One>>
    /\ fn \in {"make_pose", "pose_inv"} => ret[4] = <<Zero, Zero, Zero, One>>
    /\ fn = "make_pose" => Trans3(ret) = args.translation /\ Rot3(ret) = args.rotation
    /\ fn = "pose_transform" => args.product[4] = <<Zero, Zero, Zero, One>>
    /\ fn = "mat2pose" => ret.pos = args.pos /\ SameRot(ret.quat, q1)

\* pose2mat(((150, 150, 100), (0, 0, 0, 1))) has returned the identity rotation
\* with the translation column (150, 150, 100)
C22_Witness ==
    /\ fn = "pose2mat"
    /\ args.pos = V3(150, 150, 100) /\ q1 = QIdentity
    /\ ret = << <<One, Zero, Zero, I2R(150)>>, <<Zero, One, Zero, I2R(150)>>,
                <<Zero, Zero, One, I2R(100)>>, <<Zero, Zero, Zero, One>> >>

\* check_quat_right_angle(quat, atol=5e-2) on one quaternion: the L1 norm is
\* within atol of one of the reference norms 1.0, 1.414, 2.0
check_quat_right_angle(quat, atol) ==
    The({ \E reference_norm \in { One, <<707, 500>>, Two } :
              RLt(RAbs(RSub(l1_norm, reference_norm)), atol) :
          l1_norm \in { RAdd(RAdd(RAdd(RAbs(quat[1]), RAbs(quat[2])), RAbs(quat[3])),
                              RAbs(quat[4])) } })

\* The 48 quaternions of the rotations by multiples of 90 degrees about the
\* axes: the signed permutations of (1, 0, 0, 0), of (0.7071, 0.7071, 0, 0) (the
\* decimal value of 1/sqrt 2) and of (1/2, 1/2, 1/2, 1/2).
RightAngleQuats ==
    { [i \in 1..4 |-> IF i = k THEN I2R(sg) ELSE Zero] \o <<>> : k \in 1..4, sg \in {-1, 1} }
    \cup { [i \in 1..4 |-> IF i = kl[1] THEN <<sk * 7071, 10000>>
                            ELSE IF i = kl[2] THEN <<sl * 7071, 10000>> ELSE Zero] \o <<>> :
             kl \in { <<1, 2>>, <<1, 3>>, <<1, 4>>, <<2, 3>>, <<2, 4>>, <<3, 4>> },
             sk \in {-1, 1}, sl \in {-1, 1} }
    \cup { Q4(<<a, 2>>, <<b, 2>>, <<c, 2>>, <<d, 2>>) :
             a \in {-1, 1}, b \in {-1, 1}, c \in {-1, 1}, d \in {-1, 1} }

\* the right-angle quaternions, and unit quaternions of other rotations
CallCheckQuatRightAngle ==
    \E quat \in RightAngleQuats
                \cup { Q4(<<3, 5>>, Zero, Zero, <<4, 5>>), Q4(Zero, Zero, <<-4, 5>>, <<3, 5>>),
                       Q4(<<2, 3>>, <<2, 3>>, <<1, 3>>, Zero), Q4(<<2, 7>>, <<3, 7>>, <<6, 7>>, Zero),
                       Q4(<<7, 25>>, Zero, Zero, <<24, 25>>),
                       Q4(<<1, 10>>, <<1, 10>>, <<7, 10>>, <<7, 10>>) },
       atol \in { <<1, 20>>, <<1, 1000>> } :
        Call("check_quat_right_angle", quat, NoValue, [atol |-> atol],
             check_quat_right_angle(quat, atol))

\* q is within atol, in every component, of one of the 48 right-angle quaternions
NearRightAngle(q, atol) ==
    \E r \in RightAngleQuats : \A i \in 1..4 : RLt(RAbs(RSub(q[i], r[i])), atol)

\* C23: check_quat_right_angle(q, atol) applies the test |L1 norm - r| < atol
\* for some r in {1.0, 1.414, 2.0}, and it returns True exactly when q is
\* within atol of one of the 48 right-angle quaternions: each of the 48 is
\* accepted and any other unit quaternion is rejected.
C23_RightAngle ==
    fn = "check_quat_right_angle" =>
        LET l1 == RAdd(RAdd(RAdd(RAbs(q1[1]), RAbs(q1[2])), RAbs(q1[3])), RAbs(q1[4]))
        IN  /\ ret <=> \E r \in { One, <<707, 500>>, Two } :
                          RLt(RAbs(RSub(l1, r)), args.atol)
            /\ Cardinality(RightAngleQuats) = 48
            /\ q1 \in RightAngleQuats => ret
            /\ ret <=> NearRightAngle(q1, args.atol)

----------------------------------------------------------------------------
(* Euler angles of a quaternion                                             *)

\* An angle with its turn: the value t + 2 pi k of the point (cos t, sin t),
\* t in [0, 2 pi).  A value in (-pi, pi] has k = -1 when its sine is negative.
Turn(c, s) == [c |-> c, s |-> s, k |-> IF RLt(s, Zero) THEN -1 ELSE 0]
\* th.atan2(y, x), in (-pi, pi]; atan2(0, 0) is 0
th_atan2(y, x) ==
    The({ IF r = Zero THEN Turn(One, Zero) ELSE Turn(RDiv(x, r), RDiv(y, r)) :
          r \in {RSqrt(RAdd(RMul(x, x), RMul(y, y)))} })
\* th.asin(x), in [-pi / 2, pi / 2]
th_asin(x) == The({ Turn(RSqrt(RSub(One, RMul(y, y))), y) : y \in {x} })
\* copysign(math.pi / 2.0, b): th.abs(a) * th.sign(b)
copysign(b) == IF RSign(b) = Zero THEN Turn(One, Zero) ELSE Turn(Zero, RSign(b))
\* a % (2 * math.pi): the remainder has the sign of the divisor
ModTwoPi(a) == [a EXCEPT !.k = 0]

quat2euler_pitch_asin(q) ==
    LET qx == q[1]  qy == q[2]  qz == q[3]  qw == q[4]
        sinr_cosp == RMul(Two, RAdd(RMul(qw, qx), RMul(qy, qz)))
        cosr_cosp == RAdd(RSub(RSub(RMul(qw, qw), RMul(qx, qx)), RMul(qy, qy)), RMul(qz, qz))
        sinp == RMul(Two, RSub(RMul(qw, qy), RMul(qz, qx)))
        siny_cosp == RMul(Two, RAdd(RMul(qw, qz), RMul(qx, qy)))
        cosy_cosp == RSub(RSub(RAdd(RMul(qw, qw), RMul(qx, qx)), RMul(qy, qy)), RMul(qz, qz))
    IN  << ModTwoPi(th_atan2(sinr_cosp, cosr_cosp)),
           IF RLe(One, RAbs(sinp)) THEN copysign(sinp) ELSE th_asin(sinp),
           ModTwoPi(th_atan2(siny_cosp, cosy_cosp)) >>

\* quat2euler(q) on a batch of one row q (q[:, qw] needs the batch dimension)
quat2euler(q) ==
    LET qx == q[1]  qy == q[2]  qz == q[3]  qw == q[4]
        sinr_cosp == RMul(Two, RAdd(RMul(qw, qx), RMul(qy, qz)))
        cosr_cosp == RAdd(RSub(RSub(RMul(qw, qw), RMul(qx, qx)), RMul(qy, qy)), RMul(qz, qz))
        roll == th_atan2(sinr_cosp, cosr_cosp)
        sinp == RMul(Two, RSub(RMul(qw, qy), RMul(qz, qx)))
        pitch == IF RLe(One, RAbs(sinp)) THEN copysign(sinp) ELSE th_asin(sinp)
        siny_cosp == RMul(Two, RAdd(RMul(qw, qz), RMul(qx, qy)))
        cosy_cosp == RSub(RSub(RAdd(RMul(qw, qw), RMul(qx, qx)), RMul(qy, qy)), RMul(qz, qz))
        yaw == th_atan2(siny_cosp, cosy_cosp)
    IN  << ModTwoPi(roll), ModTwoPi(pitch), ModTwoPi(yaw) >>

\* quat2euler(euler2quat(e)) for a batch of one row e of three angles
CallQuat2EulerOf ==
    \E r \in AngleInputs, p \in AngleInputs, y \in AngleInputs :
        Call("quat2euler", euler2quat(<<r, p, y>>).value, NoValue, [euler |-> <<r, p, y>>],
             quat2euler(euler2quat(<<r, p, y>>).value))

\* quat2euler on quaternions whose sinp is 0, 24/25, 1, 2 and their negatives:
\* (0, 1, 0, 1) and (0, -1, 0, 1) are multiples of the quaternions of a pitch
\* of +-90 degrees, whose components are irrational
CallQuat2Euler ==
    \E q \in { QIdentity, QI(0, 1, 0, 1), QI(0, -1, 0, 1), QI(1, 0, 0, 0),
               Q4(Zero, <<3, 5>>, Zero, <<4, 5>>), Q4(Zero, <<-3, 5>>, Zero, <<4, 5>>),
               Q4(Zero, Half, Zero, One), Q4(Half, Zero, One, Zero) } :
        Call("quat2euler", q, NoValue, [gimbal |-> RLe(One, RAbs(RMul(Two, RSub(RMul(q[4], q[2]), RMul(q[3], q[1])))))],
             quat2euler(q))

SameAngle(a, b) == a.c = b.c /\ a.s = b.s

----------------------------------------------------------------------------
(* quat_slerp on a quaternion and on its negative                           *)

\* interior fractions: 1/2 where the half of the angle has a rational point,
\* 0.4097 where the quaternions are orthogonal
InteriorFracs(a, b) ==
    (IF RAbs(VDot(a, b)) = <<7, 25>> THEN {Half} ELSE {})
        \cup (IF VDot(a, b) = Zero THEN {<<4097, 10000>>} ELSE {})

\* quat_slerp(q0, q1, f) and quat_slerp(q0, -q1, f), shortestpath left at its
\* default True
CallQuatSlerpBoth ==
    \E a \in SlerpQuatInputs, b \in SlerpQuatInputs \cup { VNeg(q) : q \in SlerpQuatInputs } :
        \E f \in InteriorFracs(a, b) :
            Call("quat_slerp_both", b, a,
                 [frac |-> f, dot |-> VDot(a, b), negated |-> quat_slerp(a, VNeg(b), f, TRUE)],
                 quat_slerp(a, b, f, TRUE))

\* C26 (as stated): with shortestpath true, quat_slerp(q0, q1, f) equals
\* quat_slerp(q0, -q1, f) for every f strictly between 0 and 1, interpolates
\* towards the one of q1 and -q1 whose dot product with q0 is not negative,
\* and returns a quaternion of unit norm.
C26_SlerpDoubleCover ==
    fn = "quat_slerp_both" =>
        /\ ret = args.negated
        /\ ret = quat_slerp(q0, IF RLt(args.dot, Zero) THEN VNeg(q1) ELSE q1, args.frac, FALSE)
        /\ IsUnit(ret)

\* C26: with shortestpath true and q0 . q1 # 0, quat_slerp(q0, q1, f) equals
\* quat_slerp(q0, -q1, f) for f strictly between 0 and 1; when q0 . q1 = 0
\* neither q1 nor -q1 is negated and the two results differ.  In both cases
\* the interpolation is towards the one of q1 and -q1 that the code keeps (q1
\* unless q0 . q1 < 0) and the result has unit norm.
C26_SlerpDoubleCoverNonZeroDot ==
    fn = "quat_slerp_both" =>
        /\ args.dot # Zero => ret = args.negated
        /\ args.dot = Zero => ret # args.negated /\ IsUnit(args.negated)
        /\ ret = quat_slerp(q0, IF RLt(args.dot, Zero) THEN VNeg(q1) ELSE q1, args.frac, FALSE)
        /\ IsUnit(ret)

\* halfway from the identity to (0, 0, -24/25, -7/25), whose dot product with
\* the identity is negative: (0, 0, 3/5, 4/5), as towards (0, 0, 24/25, 7/25)
C26_Witness ==
    /\ fn = "quat_slerp_both" /\ q0 = QIdentity
    /\ q1 = Q4(Zero, Zero, <<-24, 25>>, <<-7, 25>>)
    /\ args.frac = Half
    /\ ret = Q4(Zero, Zero, <<3, 5>>, <<4, 5>>) /\ args.negated = ret

----------------------------------------------------------------------------
(* The branches of mat2quat                                                 *)

mat2quat_branch_m00(rmat) ==
    IF AllClose3(rmat, Eye(3)) THEN "identity"
    ELSE IF RGt(RAdd(RAdd(rmat[1][1], rmat[2][2]), rmat[3][3]), Zero) THEN "trace"
    ELSE "m00"

\* the branch mat2quat takes on one 3x3 matrix: the identity shortcut, the
\* formula of a positive trace, or that of m00, m11 or m22
mat2quat_branch(rmat) ==
    IF AllClose3(rmat, Eye(3)) THEN "identity"
    ELSE IF RGt(RAdd(RAdd(rmat[1][1], rmat[2][2]), rmat[3][3]), Zero) THEN "trace"
    ELSE IF RGt(rmat[1][1], rmat[2][2]) /\ RGt(rmat[1][1], rmat[3][3]) THEN "m00"
    ELSE IF RGt(rmat[2][2], rmat[3][3]) THEN "m11"
    ELSE "m22"

\* the scale factor s of a branch
mat2quat_s(rmat, branch) ==
    The({ LET m00 == m[1][1]  m11 == m[2][2]  m22 == m[3][3]
          IN  IF branch = "trace"
              THEN RMul(Two, RSqrt(RAdd(RAdd(RAdd(m00, m11), m22), One)))
              ELSE IF branch = "m00"
              THEN RMul(Two, RSqrt(RSub(RSub(RAdd(One, m00), m11), m22)))
              ELSE IF branch = "m11"
              THEN RMul(Two, RSqrt(RSub(RSub(RAdd(One, m11), m00), m22)))
              ELSE RMul(Two, RSqrt(RSub(RSub(RAdd(One, m22), m00), m11))) : m \in {rmat} })

\* (x, y, z, w) of a branch, before the normalisation
mat2quat_xyzw(rmat, branch) ==
    The({ LET m00 == m[1][1]  m01 == m[1][2]  m02 == m[1][3]
              m10 == m[2][1]  m11 == m[2][2]  m12 == m[2][3]
              m20 == m[3][1]  m21 == m[3][2]  m22 == m[3][3]
          IN  IF branch = "trace"
              THEN << RDiv(RSub(m21, m12), s), RDiv(RSub(m02, m20), s),
                      RDiv(RSub(m10, m01), s), RMul(Quarter, s) >>
              ELSE IF branch = "m00"
              THEN << RMul(Quarter, s), RDiv(RAdd(m01, m10), s),
                      RDiv(RAdd(m02, m20), s), RDiv(RSub(m21, m12), s) >>
              ELSE IF branch = "m11"
              THEN << RDiv(RAdd(m01, m10), s), RMul(Quarter, s),
                      RDiv(RAdd(m12, m21), s), RDiv(RSub(m02, m20), s) >>
              ELSE << RDiv(RAdd(m02, m20), s), RDiv(RAdd(m12, m21), s),
                      RMul(Quarter, s), RDiv(RSub(m10, m01), s) >> :
          m \in {rmat}, s \in {mat2quat_s(rmat, branch)} })

\* the diagonal element a branch is named after
DiagOf(rmat, branch) ==
    IF branch = "m00" THEN rmat[1][1] ELSE IF branch = "m11" THEN rmat[2][2] ELSE rmat[3][3]

\* C27: on a rotation matrix (the identity, ties between diagonal elements
\* and half turns, whose trace is -1, included) mat2quat returns the
\* normalised quaternion of the positive-trace formula when trace > 0 and
\* otherwise of the formula of a largest diagonal element, the scale factor s
\* of the branch taken is strictly positive, and the result has unit norm.
C27_Mat2QuatBranches ==
    fn = "mat2quat" =>
        LET m == args.rmat
            b == mat2quat_branch(m)
            trace == RAdd(RAdd(m[1][1], m[2][2]), m[3][3])
            taken == IF b = "identity" THEN "trace" ELSE b
        IN  /\ RGt(trace, Zero) <=> taken = "trace"
            /\ taken # "trace" => \A i \in 1..3 : RLe(m[i][i], DiagOf(m, taken))
            /\ RGt(mat2quat_s(m, taken), Zero)
            /\ ret = Ok(VDivS(mat2quat_xyzw(m, taken), VNorm(mat2quat_xyzw(m, taken))))
            /\ IsUnit(ret.value)

\* the half turn about (2, 2, 1) / 3, where m00 = m11 = -1/9 is the largest
\* diagonal element and the trace is -1, has been converted by the m11 formula
C27_Witness ==
    /\ fn = "mat2quat" /\ q1 = Q4(<<2, 3>>, <<2, 3>>, <<1, 3>>, Zero)
    /\ args.rmat[1][1] = <<-1, 9>> /\ args.rmat[2][2] = <<-1, 9>>
    /\ mat2quat_branch(args.rmat) = "m11"
    /\ mat2quat_s(args.rmat, "m11") = <<8, 3>>
    /\ ret.value = q1

----------------------------------------------------------------------------
(* The rotation from one vector to another                                  *)

\* t.expand_as(other) for 1-D tensors: a size other than 1 cannot be expanded
\* to a different size
expand_as(t, other) ==
    IF Len(t) = Len(other) THEN Ok(t)
    ELSE IF Len(t) = 1 THEN Ok(Tup([i \in 1..Len(other) |-> t[1]]))
    ELSE Raise("RuntimeError")

\* vecs2quat(vec0, vec1, normalized).  The three arguments of th.where are
\* evaluated before it is called: the tensor (1, 0, 0, 0) is expanded to the
\* shape of vec0, and the cross product is of 3-vectors only.
vecs2quat(vec0, vec1, normalized) ==
    The({ The({
        IF half_turn.raised # "none" THEN half_turn
        ELSE IF Len(v0) # 3 THEN Raise("RuntimeError")
        ELSE The({ Ok(VDivS(quat_unnormalized, VNorm(quat_unnormalized))) :
                   quat_unnormalized \in {
                       IF cos_theta = RNeg(One) THEN half_turn.value
                       ELSE Cross(v0, v1) \o <<RAdd(One, cos_theta)>> } }) :
            cos_theta \in { VDot(v0, v1) },
            half_turn \in { expand_as(<<One, Zero, Zero, Zero>>, v0) } }) :
        v0 \in { IF normalized THEN vec0 ELSE normalize(vec0) },
        v1 \in { IF normalized THEN vec1 ELSE normalize(vec1) } })

\* pairs of 3-vectors, parallel and antiparallel ones among them, and one
\* pair of 4-vectors
CallVecs2Quat ==
    \E v0 \in VecInputs \cup { V3(-3, 0, 0), V3(0, 0, 1), QI(1, 0, 0, 0) },
       v1 \in VecInputs \cup { V3(-3, 0, 0), V3(0, 0, 1), QI(1, 0, 0, 0) },
       normalized \in BOOLEAN :
        /\ Len(v0) = Len(v1)
        /\ normalized => VNorm(v0) = One /\ VNorm(v1) = One
        /\ Call("vecs2quat", NoValue, NoValue,
                [vec0 |-> v0, vec1 |-> v1, normalized |-> normalized],
                vecs2quat(v0, v1, normalized))

\* C28: vecs2quat(vec0, vec1) of two non-zero 3-vectors returns a unit
\* quaternion q that maps the direction of vec0 onto that of vec1
\* (quat_apply(q, vec0 / |vec0|) = vec1 / |vec1|), for parallel and for
\* antiparallel vectors too.
C28_Vecs2Quat ==
    (/\ fn = "vecs2quat" /\ Len(args.vec0) = 3
     /\ VNorm(args.vec0) # Zero /\ VNorm(args.vec1) # Zero) =>
        /\ ret.raised = "none"
        /\ IsUnit(ret.value)
        /\ quat_apply(ret.value, normalize(args.vec0)) = normalize(args.vec1)

----------------------------------------------------------------------------
(* The integer spiral                                                       *)

\* largest argument of integer_spiral_coordinates
MaxN == 48

\* th.floor(th.sqrt(n)) for an integer n >= 0
FloorSqrt(n) == CHOOSE m \in 0..n : m * m <= n /\ (m + 1) * (m + 1) > n

integer_spiral_coordinates_floor(n) ==
    LET m == FloorSqrt(n)
        sign == IF m % 2 = 0 THEN 1 ELSE -1
        x == sign * ((n - m * (m + 1)) * (FloorSqrt(4 * n) % 2) - (m \div 2))
        y == (-sign) * ((n - m * (m + 1)) * ((FloorSqrt(4 * n) + 1) % 2) + (m \div 2))
    IN  <<x, y>>

\* integer_spiral_coordinates(n), n >= 0: floor(2 sqrt(n)) is floor(sqrt(4 n)),
\* (-1) ** m is 1 for an even m and -1 for an odd one, and math.ceil(m / 2) is
\* (m + 1) div 2
integer_spiral_coordinates(n) ==
    LET m == FloorSqrt(n)
        sign == IF m % 2 = 0 THEN 1 ELSE -1
        x == sign * ((n - m * (m + 1)) * (FloorSqrt(4 * n) % 2) - ((m + 1) \div 2))
        y == (-sign) * ((n - m * (m + 1)) * ((FloorSqrt(4 * n) + 1) % 2) + ((m + 1) \div 2))
    IN  <<x, y>>

CallIntegerSpiralCoordinates ==
    \E n \in 0..MaxN :
        Call("integer_spiral_coordinates", NoValue, NoValue, [n |-> n],
             integer_spiral_coordinates(n))

Manhattan(p, q) == Abs(p[1] - q[1]) + Abs(p[2] - q[2])

\* C29: integer_spiral_coordinates(0) is (0, 0); different n give different
\* cells; consecutive n give cells at Manhattan distance 1; and the cells of
\* 0 .. (2k+1)^2 - 1 are exactly those of the square |x| <= k, |y| <= k.
C29_Spiral ==
    fn = "integer_spiral_coordinates" =>
        /\ args.n = 0 => ret = <<0, 0>>
        /\ \A i \in 0..MaxN : i # args.n => integer_spiral_coordinates(i) # ret
        /\ args.n > 0 => Manhattan(ret, integer_spiral_coordinates(args.n - 1)) = 1
        /\ \A k \in 0..args.n :
                args.n = (2 * k + 1) * (2 * k + 1) - 1 =>
                    { integer_spiral_coordinates(i) : i \in 0..args.n }
                        = { <<x, y>> : x \in (-k)..k, y \in (-k)..k }

\* integer_spiral_coordinates(24) has returned (2, -2), the last cell of the
\* square |x|, |y| <= 2
C29_Witness ==
    /\ fn = "integer_spiral_coordinates" /\ args.n = 24 /\ ret = <<2, -2>>

----------------------------------------------------------------------------
(* The sampling loop of sample_b1k_scenes.py, run by several threads on one *)
(* worksheet                                                                *)

\* args.thread_id of the threads
ThreadIds == {"1", "2"}

\* the activities of the scene, sorted; "c" has no row in the worksheet
Activities == <<"a", "b", "c">>
ACTIVITY_TO_ROW == [a |-> 2, b |-> 3]

\* the orders random.shuffle(activities) can leave
Shuffles ==
    { Tup(p) : p \in { f \in [1..Len(Activities) -> 1..Len(Activities)] :
                       \A i, j \in 1..Len(Activities) : f[i] = f[j] => i = j } }
OrderOf(p) == Tup([i \in 1..Len(p) |-> Activities[p[i]]])

\* the cells B (in_progress) and C (success) of a row
Cells(in_progress, success) == [in_progress |-> in_progress, success |-> success]

\* the threads at the top of the loop, no row in progress, some rows already
\* sampled or marked DNS
InitSampling ==
    /\ NoAlg /\ NoFrames
    /\ tables = ModuleTables
    /\ sheet \in [ {ACTIVITY_TO_ROW[a] : a \in DOMAIN ACTIVITY_TO_ROW} ->
                   { Cells("", s) : s \in {"", "1", "dns"} } ]
    /\ thread \in [ ThreadIds ->
                    { [pc |-> "loop", activities |-> OrderOf(p), i |-> 0, row |-> 0,
                       overwrite_existing |-> o, cells |-> NoValue] :
                      p \in Shuffles, o \in BOOLEAN } ]

\* one iteration of `for activity in activities` up to the reservation: the
\* row is fetched with worksheet.get and the activity is skipped if it has no
\* row, is marked DNS, was sampled already, or is in progress
GetRow(t) ==
    /\ thread[t].pc = "loop"
    /\ thread[t].i < Len(thread[t].activities)
    /\ LET activity == thread[t].activities[thread[t].i + 1]
           row == ACTIVITY_TO_ROW[activity]
       IN  IF activity \notin DOMAIN ACTIVITY_TO_ROW
           THEN thread' = [thread EXCEPT ![t].i = @ + 1]
           ELSE IF \/ sheet[row].success = "dns"
                   \/ (sheet[row].success # "" /\ sheet[row].success = "1"
                       /\ ~ thread[t].overwrite_existing)
                   \/ sheet[row].in_progress # ""
           THEN thread' = [thread EXCEPT ![t].i = @ + 1]
           ELSE thread' = [thread EXCEPT ![t].i = @ + 1, ![t].pc = "reserve",
                                         ![t].row = row, ![t].cells = sheet[row]]
    /\ UNCHANGED <<sheet, tables>>
    /\ UNCHANGED algVars /\ UNCHANGED frameVars

\* worksheet.update_acell(f"B{row}", args.thread_id)
Reserve(t) ==
    /\ thread[t].pc = "reserve"
    /\ sheet' = [sheet EXCEPT ![thread[t].row].in_progress = t]
    /\ thread' = [thread EXCEPT ![t].pc = "sample"]
    /\ UNCHANGED tables
    /\ UNCHANGED algVars /\ UNCHANGED frameVars

\* the activity is sampled and the row written with update_cells: in_progress
\* cleared, success 1 or 0 (0 after an exception too)
Sample(t) ==
    /\ thread[t].pc = "sample"
    /\ \E success \in BOOLEAN :
        sheet' = [sheet EXCEPT ![thread[t].row] = Cells("", IF success THEN "1" ELSE "0")]
    /\ thread' = [thread EXCEPT ![t].pc = "loop", ![t].row = 0, ![t].cells = NoValue]
    /\ UNCHANGED tables
    /\ UNCHANGED algVars /\ UNCHANGED frameVars

\* the loop has gone through every activity
Shutdown(t) ==
    /\ thread[t].pc = "loop"
    /\ thread[t].i = Len(thread[t].activities)
    /\ thread' = [thread EXCEPT ![t].pc = "done"]
    /\ UNCHANGED <<sheet, tables>>
    /\ UNCHANGED algVars /\ UNCHANGED frameVars

NextSampling ==
    \/ \E t \in ThreadIds : GetRow(t)
    \/ \E t \in ThreadIds : Reserve(t)
    \/ \E t \in ThreadIds : Sample(t)
    \/ \E t \in ThreadIds : Shutdown(t)

SpecSampling == InitSampling /\ [][NextSampling]_vars

\* C30: a thread goes on to reserve and sample a row only if the in_progress
\* cell it read was empty, and at any time at most one thread holds the
\* reservation of a row and is sampling it.
C30_OneSamplerPerActivity ==
    /\ \A t \in ThreadIds :
            thread[t].pc \in {"reserve", "sample"} => thread[t].cells.in_progress = ""
    /\ \A t \in ThreadIds :
            thread[t].pc = "sample" => sheet[thread[t].row].in_progress = t
    /\ \A t, u \in ThreadIds :
            (thread[t].pc = "sample" /\ thread[u].pc = "sample" /\ thread[t].row = thread[u].row)
                => t = u

NextMore ==
    \/ CallQuat2AxisAngleTwice
    \/ CallGetOrientationDiffTwice
    \/ CallRotationMatrixTwice
    \/ CallQuatSlerpTwice
    \/ CallClipRotationTwice
    \/ CallPoseInvTwice
    \/ CallPose2MatOf
    \/ CallMakePose
    \/ CallPoseProduct
    \/ CallMat2PoseOf
    \/ CallCheckQuatRightAngle
    \/ CallQuat2EulerOf
    \/ CallQuat2Euler
    \/ CallQuatSlerpBoth
    \/ CallVecs2Quat
    \/ CallIntegerSpiralCoordinates

SpecMore == InitUtil /\ [][NextMore]_vars

============================================================================
